---------------------------- MODULE Spec2Model ----------------------------
(***************************************************************************)
(* Creator verification and consensus of the AI-agent NFT platform:        *)
(* the AIAgentBatchNFT contract (verifyCreatorWithZkTLS, the expiry        *)
(* predicates, the trusted-node registry, the emergency clear) and the     *)
(* /api/zktls route that fronts it.                                        *)
(***************************************************************************)
EXTENDS Integers, Sequences, FiniteSets, TLC

(***************************************************************************)
(* Bounds of the model.                                                    *)
(***************************************************************************)
\* block.timestamp of the deployment block
Genesis == 1000000
\* longest nodeSignatures array submitted in SpecQuorum
MaxQuorumSigs == 3
\* accepted verifications explored per behaviour
MaxUsed == 2
\* agents created in a run
MaxAgents == 2

(***************************************************************************)
(* Program constants.                                                      *)
(***************************************************************************)
DefaultExpiry == 2592000
DefaultRequired == 3
MaxAccuracy == 10000
FutureWindow == 300
StaleWindow == 3600
MinExpiry == 3600
MaxExpiry == 31536000

(***************************************************************************)
(* Addresses.  ZeroAddress is address(0); Owner deployed the contract;     *)
(* Subject is a creator; Wallet is the account of the route's PRIVATE_KEY; *)
(* NodeAddrs are the Lighthouse nodes an owner may trust; Outsider is a    *)
(* key that is never trusted; Unrecovered stands for the address ECDSA     *)
(* recovery yields when the digest is not the one that was signed.         *)
(***************************************************************************)
ZeroAddress == "0x0"
Owner == "owner"
Subject == "S"
Wallet == "W"
Outsider == "x"
Unrecovered == "0x?"
NodeAddrs == {"n1", "n2", "n3"}
\* LIGHTHOUSE_NODE_1.. of the deployment the route runs against
ApiNodes == <<"n1", "n2", "n3", "n4">>
Senders == {Subject, Wallet}
Accounts == {ZeroAddress, Owner, Subject, Wallet}

\* the instants at which blocks are mined
TimePoints ==
    {Genesis, Genesis + StaleWindow + 1,
     Genesis + DefaultExpiry, Genesis + DefaultExpiry + 1}

VARIABLES
    creatorVerifications,     \* mapping(address => CreatorVerification)
    trustedLighthouseNodes,   \* mapping(address => bool)
    usedVerificationHashes,   \* mapping(bytes32 => bool), as the set of true keys
    trustedNodesList,         \* address[]
    requiredNodeSignatures,   \* uint256
    verificationExpiryDuration, \* uint256
    now,                      \* block.timestamp
    lastCall,                 \* the last transaction and how it ended
    lastQuorum,               \* what the last nodeSignatures array contained
    acceptedLog,              \* the keys of the accepted calls, in order
    post,                     \* the POST /api/zktls request being served
    agents,                   \* AgentStorage: the agents stored, by tokenId
    usedHashes,               \* AgentStorage.usedHashes, as the set of true keys
    mintingPaused             \* bool

vars ==
    <<creatorVerifications, trustedLighthouseNodes, usedVerificationHashes,
      trustedNodesList, requiredNodeSignatures, verificationExpiryDuration,
      now, lastCall, lastQuorum, acceptedLog, post, agents, usedHashes,
      mintingPaused>>

\* the settings of minting that the creation and mint functions only read
pauseVars == <<mintingPaused>>

ledgerVars ==
    <<creatorVerifications, trustedLighthouseNodes, usedVerificationHashes,
      trustedNodesList, requiredNodeSignatures, verificationExpiryDuration>>

(***************************************************************************)
(* Hashing and signatures.  keccak256 is collision resistant, so a hash is *)
(* modelled by the tuple of what was hashed, tagged with the encoding.     *)
(***************************************************************************)
ZeroData ==
    [lighthouseHash |-> "", datasetSize |-> 0, trainingEpochs |-> 0,
     accuracy |-> 0, timestamp |-> 0, dataHash |-> ""]

ZeroVerification ==
    [isVerified |-> FALSE, verificationTime |-> 0, lighthouseHash |-> "",
     data |-> ZeroData, expiryDuration |-> 0]

\* the JavaScript null, and the route with no request in hand
Null == [kind |-> "null"]
NoResponse == [status |-> 0, error |-> ""]
IdlePost ==
    [pc |-> "idle", creatorAddress |-> "", lighthouseHash |-> "",
     proof |-> Null, agentData |-> ZeroData, nodeSignatures |-> <<>>,
     verificationData |-> ZeroData, nodeCalls |-> 0, response |-> NoResponse,
     \* what each request of the fan-out to the node URLs came to
     nodes |-> <<>>]

\* keccak256(abi.encodePacked(msg.sender, lighthouseHash, ..., dataHash))
VerificationHash(sender, d) ==
    <<"packed", sender, d.lighthouseHash, d.datasetSize, d.trainingEpochs,
      d.accuracy, d.timestamp, d.dataHash>>

\* keccak256(abi.encodePacked(msg.sender, lighthouseHash, ..., timestamp))
MessageHash(sender, d) ==
    <<"packed", sender, d.lighthouseHash, d.datasetSize, d.trainingEpochs,
      d.accuracy, d.timestamp>>

\* ECDSA.toEthSignedMessageHash
ToEthSignedMessageHash(h) == <<"Ethereum Signed Message", h>>

\* a signature made by the key of `signer` over `digest`
SignatureOf(signer, digest) == [signer |-> signer, digest |-> digest]

\* ECDSA.recover
Recover(digest, signature) ==
    IF signature.digest = digest THEN signature.signer ELSE Unrecovered

NodeSig(nodeAddress, signature) ==
    [nodeAddress |-> nodeAddress, signature |-> signature]

(***************************************************************************)
(* verifyCreatorWithZkTLS, AIAgentBatchNFT.sol:111-169                     *)
(***************************************************************************)
\* the loop with the comparison of line 149 left out: every entry that
\* names a trusted node counts
RECURSIVE CountValidSignatures_AnySigner(_, _, _)
CountValidSignatures_AnySigner(messageHash, nodeSignatures, i) ==
    IF i > Len(nodeSignatures) THEN 0
    ELSE IF ~trustedLighthouseNodes[nodeSignatures[i].nodeAddress] THEN -1
    ELSE LET rest ==
                 CountValidSignatures_AnySigner(messageHash, nodeSignatures, i + 1)
         IN  IF rest = -1 THEN -1 ELSE rest + 1

\* the loop with the require of line 146 left out: an entry naming a node
\* that is no longer trusted counts when its signature is the node's
RECURSIVE CountValidSignatures_NoTrustCheck(_, _, _)
CountValidSignatures_NoTrustCheck(messageHash, nodeSignatures, i) ==
    IF i > Len(nodeSignatures) THEN 0
    ELSE LET rest ==
                 CountValidSignatures_NoTrustCheck(messageHash, nodeSignatures,
                                                   i + 1)
             recoveredSigner ==
                 Recover(ToEthSignedMessageHash(messageHash),
                         nodeSignatures[i].signature)
         IN  IF recoveredSigner = nodeSignatures[i].nodeAddress
             THEN rest + 1
             ELSE rest

\* the loop of lines 144-152: "revert" when an entry names an untrusted
\* node, otherwise the number of entries whose signer is the named node
RECURSIVE CountValidSignatures(_, _, _)
CountValidSignatures(messageHash, nodeSignatures, i) ==
    IF i > Len(nodeSignatures) THEN 0
    ELSE IF ~trustedLighthouseNodes[nodeSignatures[i].nodeAddress] THEN -1
    ELSE LET rest == CountValidSignatures(messageHash, nodeSignatures, i + 1)
             recoveredSigner ==
                 Recover(ToEthSignedMessageHash(messageHash),
                         nodeSignatures[i].signature)
         IN  IF rest = -1 THEN -1
             ELSE IF recoveredSigner = nodeSignatures[i].nodeAddress
                  THEN rest + 1
                  ELSE rest

\* the requires with the accuracy check of line 117 left out
VerifyOutcome_NoAccuracyCheck(sender, d, nodeSignatures) ==
    LET validSignatures ==
            CountValidSignatures(MessageHash(sender, d), nodeSignatures, 1)
    IN  IF Len(nodeSignatures) < requiredNodeSignatures
            THEN "Insufficient node signatures"
        ELSE IF d.lighthouseHash = "" THEN "Empty lighthouse hash"
        ELSE IF d.timestamp <= 0 THEN "Invalid timestamp"
        ELSE IF d.timestamp > now + FutureWindow THEN "Future timestamp"
        ELSE IF now < StaleWindow THEN "panic"
        ELSE IF d.timestamp < now - StaleWindow THEN "Stale timestamp"
        ELSE IF VerificationHash(sender, d) \in usedVerificationHashes
            THEN "Verification already used"
        ELSE IF validSignatures = -1 THEN "Untrusted node"
        ELSE IF validSignatures < requiredNodeSignatures
            THEN "Insufficient valid signatures"
        ELSE "ok"

\* the requires with the replay check of line 132 left out
VerifyOutcome_NoReplayCheck(sender, d, nodeSignatures) ==
    LET validSignatures ==
            CountValidSignatures(MessageHash(sender, d), nodeSignatures, 1)
    IN  IF Len(nodeSignatures) < requiredNodeSignatures
            THEN "Insufficient node signatures"
        ELSE IF d.lighthouseHash = "" THEN "Empty lighthouse hash"
        ELSE IF d.accuracy > MaxAccuracy THEN "Invalid accuracy"
        ELSE IF d.timestamp <= 0 THEN "Invalid timestamp"
        ELSE IF d.timestamp > now + FutureWindow THEN "Future timestamp"
        ELSE IF now < StaleWindow THEN "panic"
        ELSE IF d.timestamp < now - StaleWindow THEN "Stale timestamp"
        ELSE IF validSignatures = -1 THEN "Untrusted node"
        ELSE IF validSignatures < requiredNodeSignatures
            THEN "Insufficient valid signatures"
        ELSE "ok"

\* the gates without the lower edge of the time window (line 118)
VerifyOutcome_NoStaleCheck(sender, d, nodeSignatures) ==
    LET validSignatures ==
            CountValidSignatures(MessageHash(sender, d), nodeSignatures, 1)
    IN  IF Len(nodeSignatures) < requiredNodeSignatures
            THEN "Insufficient node signatures"
        ELSE IF d.lighthouseHash = "" THEN "Empty lighthouse hash"
        ELSE IF d.accuracy > MaxAccuracy THEN "Invalid accuracy"
        ELSE IF d.timestamp <= 0 THEN "Invalid timestamp"
        ELSE IF d.timestamp > now + FutureWindow THEN "Future timestamp"
        ELSE IF VerificationHash(sender, d) \in usedVerificationHashes
            THEN "Verification already used"
        ELSE IF validSignatures = -1 THEN "Untrusted node"
        ELSE IF validSignatures < requiredNodeSignatures
            THEN "Insufficient valid signatures"
        ELSE "ok"

\* the reason verifyCreatorWithZkTLS reverts with, or "ok"
VerifyOutcome(sender, d, nodeSignatures) ==
    LET validSignatures ==
            CountValidSignatures(MessageHash(sender, d), nodeSignatures, 1)
    IN  IF Len(nodeSignatures) < requiredNodeSignatures
            THEN "Insufficient node signatures"
        ELSE IF d.lighthouseHash = "" THEN "Empty lighthouse hash"
        ELSE IF d.accuracy > MaxAccuracy THEN "Invalid accuracy"
        ELSE IF d.timestamp <= 0 THEN "Invalid timestamp"
        ELSE IF d.timestamp > now + FutureWindow THEN "Future timestamp"
        ELSE IF now < StaleWindow THEN "panic"
        ELSE IF d.timestamp < now - StaleWindow THEN "Stale timestamp"
        ELSE IF VerificationHash(sender, d) \in usedVerificationHashes
            THEN "Verification already used"
        ELSE IF validSignatures = -1 THEN "Untrusted node"
        ELSE IF validSignatures < requiredNodeSignatures
            THEN "Insufficient valid signatures"
        ELSE "ok"

\* lines 156-166: what an accepted call stores
\* the record written with the duration of the deployment instead of the
\* configured one
StoredVerification_DefaultDuration(d) ==
    [isVerified |-> TRUE, verificationTime |-> now,
     lighthouseHash |-> d.lighthouseHash, data |-> d,
     expiryDuration |-> DefaultExpiry]

\* lines 159-166
StoredVerification(d) ==
    [isVerified |-> TRUE, verificationTime |-> now,
     lighthouseHash |-> d.lighthouseHash, data |-> d,
     expiryDuration |-> verificationExpiryDuration]

\* the transaction with the assignment of line 157 moved in front of the
\* signature loop and kept when the call is rejected there
VerifyTx_KeyConsumedEarly(sender, d, nodeSignatures) ==
    LET reason == VerifyOutcome(sender, d, nodeSignatures)
        key == VerificationHash(sender, d)
    IN  /\ reason = "ok" => Len(acceptedLog) < MaxUsed
        /\ lastCall' = [op |-> "verifyCreatorWithZkTLS", sender |-> sender,
                        reason |-> reason,
                        replay |-> key \in usedVerificationHashes]
        /\ usedVerificationHashes' =
               IF reason \in {"ok", "Untrusted node",
                              "Insufficient valid signatures"}
               THEN usedVerificationHashes \cup {key}
               ELSE usedVerificationHashes
        /\ IF reason = "ok"
           THEN /\ creatorVerifications' =
                       [creatorVerifications EXCEPT
                            ![sender] = StoredVerification(d)]
                /\ acceptedLog' = Append(acceptedLog, key)
           ELSE UNCHANGED <<creatorVerifications, acceptedLog>>
        /\ UNCHANGED <<trustedLighthouseNodes, trustedNodesList,
                       requiredNodeSignatures, verificationExpiryDuration,
                       now>>

\* the transaction with the assignment of line 157 left out
VerifyTx_KeyNotRecorded(sender, d, nodeSignatures) ==
    LET reason == VerifyOutcome(sender, d, nodeSignatures)
        key == VerificationHash(sender, d)
    IN  /\ reason = "ok" => Len(acceptedLog) < MaxUsed
        /\ lastCall' = [op |-> "verifyCreatorWithZkTLS", sender |-> sender,
                        reason |-> reason,
                        replay |-> key \in usedVerificationHashes]
        /\ IF reason = "ok"
           THEN /\ creatorVerifications' =
                       [creatorVerifications EXCEPT
                            ![sender] = StoredVerification(d)]
                /\ acceptedLog' = Append(acceptedLog, key)
           ELSE UNCHANGED <<creatorVerifications, acceptedLog>>
        /\ UNCHANGED <<usedVerificationHashes, trustedLighthouseNodes,
                       trustedNodesList, requiredNodeSignatures,
                       verificationExpiryDuration, now>>

\* the transaction as a whole
VerifyTx(sender, d, nodeSignatures) ==
    LET reason == VerifyOutcome(sender, d, nodeSignatures)
        key == VerificationHash(sender, d)
    IN  /\ reason = "ok" => Len(acceptedLog) < MaxUsed
        /\ lastCall' = [op |-> "verifyCreatorWithZkTLS", sender |-> sender,
                        reason |-> reason,
                        replay |-> key \in usedVerificationHashes]
        /\ IF reason = "ok"
           THEN /\ usedVerificationHashes' = usedVerificationHashes \cup {key}
                /\ creatorVerifications' =
                       [creatorVerifications EXCEPT
                            ![sender] = StoredVerification(d)]
                /\ acceptedLog' = Append(acceptedLog, key)
           ELSE UNCHANGED <<usedVerificationHashes, creatorVerifications,
                            acceptedLog>>
        /\ UNCHANGED <<trustedLighthouseNodes, trustedNodesList,
                       requiredNodeSignatures, verificationExpiryDuration,
                       now>>

(***************************************************************************)
(* Views, AIAgentBatchNFT.sol:174-196                                      *)
(***************************************************************************)
\* the view reading the configured duration instead of the record's own
isCreatorVerified_ConfiguredDuration(creator) ==
    LET verification == creatorVerifications[creator]
    IN  IF ~verification.isVerified THEN FALSE
        ELSE now <= verification.verificationTime + verificationExpiryDuration

isCreatorVerified(creator) ==
    LET verification == creatorVerifications[creator]
    IN  IF ~verification.isVerified THEN FALSE
        ELSE now <= verification.verificationTime + verification.expiryDuration

\* the status with >= for > in line 195
getCreatorVerificationStatus_ExpiredAtBoundary(creator) ==
    LET verification == creatorVerifications[creator]
    IN  [isVerified |-> verification.isVerified,
         verificationTime |-> verification.verificationTime,
         isExpired |-> verification.isVerified /\
             (now >= verification.verificationTime + verification.expiryDuration)]

getCreatorVerificationStatus(creator) ==
    LET verification == creatorVerifications[creator]
    IN  [isVerified |-> verification.isVerified,
         verificationTime |-> verification.verificationTime,
         isExpired |-> verification.isVerified /\
             (now > verification.verificationTime + verification.expiryDuration)]

(***************************************************************************)
(* Owner functions, AIAgentBatchNFT.sol:318-380                            *)
(***************************************************************************)
\* a call that reverts leaves the ledger as it was
Reverted(op, caller, reason) ==
    /\ lastCall' = [op |-> op, sender |-> caller, reason |-> reason,
                    replay |-> FALSE]
    /\ UNCHANGED <<ledgerVars, now, lastQuorum, acceptedLog, post, agents, usedHashes, pauseVars>>

Returned(op, caller) ==
    /\ lastCall' = [op |-> op, sender |-> caller, reason |-> "ok",
                    replay |-> FALSE]
    /\ UNCHANGED <<now, lastQuorum, acceptedLog, post, agents, usedHashes, pauseVars>>

\* lines 334-340: swap the entry with the last one and pop
RemoveFromList(list, nodeAddress) ==
    IF \E i \in 1..Len(list) : list[i] = nodeAddress
    THEN LET i == CHOOSE j \in 1..Len(list) :
                      /\ list[j] = nodeAddress
                      /\ \A k \in 1..(j - 1) : list[k] # nodeAddress
             swapped == [list EXCEPT ![i] = list[Len(list)]]
         IN  SubSeq(swapped, 1, Len(list) - 1)
    ELSE list

addTrustedNode(caller, nodeAddress) ==
    IF caller # Owner
        THEN Reverted("addTrustedNode", caller, "Ownable: caller is not the owner")
    ELSE IF nodeAddress = ZeroAddress
        THEN Reverted("addTrustedNode", caller, "Invalid node address")
    ELSE IF trustedLighthouseNodes[nodeAddress]
        THEN Reverted("addTrustedNode", caller, "Node already trusted")
    ELSE /\ Returned("addTrustedNode", caller)
         /\ trustedLighthouseNodes' =
                [trustedLighthouseNodes EXCEPT ![nodeAddress] = TRUE]
         /\ trustedNodesList' = Append(trustedNodesList, nodeAddress)
         /\ UNCHANGED <<creatorVerifications, usedVerificationHashes,
                        requiredNodeSignatures, verificationExpiryDuration>>

\* removeTrustedNode without the modifier onlyOwner
removeTrustedNode_AnyCaller(caller, nodeAddress) ==
    IF ~trustedLighthouseNodes[nodeAddress]
        THEN Reverted("removeTrustedNode", caller, "Node not trusted")
    ELSE /\ Returned("removeTrustedNode", caller)
         /\ trustedLighthouseNodes' =
                [trustedLighthouseNodes EXCEPT ![nodeAddress] = FALSE]
         /\ trustedNodesList' = RemoveFromList(trustedNodesList, nodeAddress)
         /\ UNCHANGED <<creatorVerifications, usedVerificationHashes,
                        requiredNodeSignatures, verificationExpiryDuration>>

\* lines 328-343
removeTrustedNode(caller, nodeAddress) ==
    IF caller # Owner
        THEN Reverted("removeTrustedNode", caller, "Ownable: caller is not the owner")
    ELSE IF ~trustedLighthouseNodes[nodeAddress]
        THEN Reverted("removeTrustedNode", caller, "Node not trusted")
    ELSE /\ Returned("removeTrustedNode", caller)
         /\ trustedLighthouseNodes' =
                [trustedLighthouseNodes EXCEPT ![nodeAddress] = FALSE]
         /\ trustedNodesList' = RemoveFromList(trustedNodesList, nodeAddress)
         /\ UNCHANGED <<creatorVerifications, usedVerificationHashes,
                        requiredNodeSignatures, verificationExpiryDuration>>

setRequiredNodeSignatures(caller, required) ==
    IF caller # Owner
        THEN Reverted("setRequiredNodeSignatures", caller,
                      "Ownable: caller is not the owner")
    ELSE IF ~(required > 0 /\ required <= Len(trustedNodesList))
        THEN Reverted("setRequiredNodeSignatures", caller, "Invalid requirement")
    ELSE /\ Returned("setRequiredNodeSignatures", caller)
         /\ requiredNodeSignatures' = required
         /\ UNCHANGED <<creatorVerifications, usedVerificationHashes,
                        trustedLighthouseNodes, trustedNodesList,
                        verificationExpiryDuration>>

setVerificationExpiryDuration(caller, duration) ==
    IF caller # Owner
        THEN Reverted("setVerificationExpiryDuration", caller,
                      "Ownable: caller is not the owner")
    ELSE IF duration < MinExpiry
        THEN Reverted("setVerificationExpiryDuration", caller, "Duration too short")
    ELSE IF duration > MaxExpiry
        THEN Reverted("setVerificationExpiryDuration", caller, "Duration too long")
    ELSE /\ Returned("setVerificationExpiryDuration", caller)
         /\ verificationExpiryDuration' = duration
         /\ UNCHANGED <<creatorVerifications, usedVerificationHashes,
                        trustedLighthouseNodes, trustedNodesList,
                        requiredNodeSignatures>>

\* the emergency clear, also forgetting the keys the creator consumed
emergencyRemoveVerification_ForgetsKeys(caller, creator) ==
    IF caller # Owner
        THEN Reverted("emergencyRemoveVerification", caller,
                      "Ownable: caller is not the owner")
    ELSE /\ Returned("emergencyRemoveVerification", caller)
         /\ creatorVerifications' =
                [creatorVerifications EXCEPT ![creator] = ZeroVerification]
         /\ usedVerificationHashes' =
                {k \in usedVerificationHashes : k[2] # creator}
         /\ UNCHANGED <<trustedLighthouseNodes, trustedNodesList,
                        requiredNodeSignatures, verificationExpiryDuration>>

emergencyRemoveVerification(caller, creator) ==
    IF caller # Owner
        THEN Reverted("emergencyRemoveVerification", caller,
                      "Ownable: caller is not the owner")
    ELSE /\ Returned("emergencyRemoveVerification", caller)
         /\ creatorVerifications' =
                [creatorVerifications EXCEPT ![creator] = ZeroVerification]
         /\ UNCHANGED <<usedVerificationHashes, trustedLighthouseNodes,
                        trustedNodesList, requiredNodeSignatures,
                        verificationExpiryDuration>>

(***************************************************************************)
(* Agent creation, AIAgentBatchNFT.sol:81-89 and 201-272, with             *)
(* ValidationLib.sol:11-34 and AgentStorage.sol:36-66, 114-116             *)
(***************************************************************************)
\* mintingFee, in units of 0.001 ether
mintingFee == 1
maxBatchSize == 20

NotVerifiedReason == "Creator not verified or verification expired"

AgentParams(name, lighthouseHash, accuracy, maxSupply, mintPrice, publicMint) ==
    [name |-> name, lighthouseHash |-> lighthouseHash, accuracy |-> accuracy,
     maxSupply |-> maxSupply, mintPrice |-> mintPrice,
     allowPublicMint |-> publicMint]

\* the modifier with the require left out
onlyVerifiedCreator_Everyone(caller) == TRUE

\* modifier onlyVerifiedCreator, lines 86-89
onlyVerifiedCreator(caller) == isCreatorVerified(caller)

\* ValidationLib.validateAgentParams: the reason it reverts with, or "ok"
validateAgentParams(params, initialMint) ==
    IF params.name = "" THEN "Empty name"
    ELSE IF params.lighthouseHash = "" THEN "Empty hash"
    ELSE IF params.accuracy > MaxAccuracy THEN "Invalid accuracy"
    ELSE IF ~(params.maxSupply > 0) THEN "Invalid supply"
    ELSE IF ~(initialMint <= params.maxSupply) THEN "Mint exceeds max"
    ELSE "ok"

\* AgentStorage.isHashUsed
isHashUsed(used, hash) == hash \in used

\* storeAgent without the assignment of line 64
markHashUsed_Forgets(used, params) == used

\* storeAgent, line 64: usedHashes[params.lighthouseHash] = true
markHashUsed(used, params) == used \cup {params.lighthouseHash}

\* AgentStorage.storeAgent under the next tokenId; balanceOf is the row of
\* the ERC1155 balances of the id, empty for a new id
storeAgent(stored, caller, params, initialSupply) ==
    Append(stored, [tokenId |-> Len(stored), creator |-> caller,
                    lighthouseHash |-> params.lighthouseHash,
                    maxSupply |-> params.maxSupply,
                    currentSupply |-> initialSupply,
                    mintPrice |-> params.mintPrice,
                    isActive |-> TRUE,
                    allowPublicMint |-> params.allowPublicMint,
                    balanceOf |-> [a \in Accounts |-> 0]])

\* what the getters return for an id never stored
ZeroAgent ==
    [tokenId |-> 0, creator |-> ZeroAddress, lighthouseHash |-> "",
     maxSupply |-> 0, currentSupply |-> 0, mintPrice |-> 0, isActive |-> FALSE,
     allowPublicMint |-> FALSE, balanceOf |-> [a \in Accounts |-> 0]]

\* AgentStorage.getAgentData: a copy of what is stored when it is called
getAgentData(stored, tokenId) ==
    IF tokenId < Len(stored) THEN stored[tokenId + 1] ELSE ZeroAgent

\* AgentStorage.updateSupply
updateSupply(stored, tokenId, newSupply) ==
    [stored EXCEPT ![tokenId + 1].currentSupply = newSupply]

\* AgentStorage.toggleActive
toggleActive(stored, tokenId) ==
    [stored EXCEPT ![tokenId + 1].isActive = ~@]

\* ERC1155._mint: the balance of `to` for the id grows by amount
ERC1155Mint(stored, to, tokenId, amount) ==
    IF amount = 0 THEN stored
    ELSE [stored EXCEPT ![tokenId + 1].balanceOf[to] = @ + amount]

\* the reason createAgent reverts with, or "ok"
CreateOutcome(caller, params, initialMint, value) ==
    IF mintingPaused THEN "Minting is paused"
    ELSE IF ~onlyVerifiedCreator(caller) THEN NotVerifiedReason
    ELSE IF ~(value >= mintingFee) THEN "Insufficient minting fee"
    ELSE IF validateAgentParams(params, initialMint) # "ok"
        THEN validateAgentParams(params, initialMint)
    ELSE IF isHashUsed(usedHashes, params.lighthouseHash)
        THEN "Lighthouse hash already used"
    ELSE IF params.lighthouseHash # creatorVerifications[caller].lighthouseHash
        THEN "Lighthouse hash mismatch with verification"
    ELSE "ok"

createAgent(caller, params, initialMint, value) ==
    LET reason == CreateOutcome(caller, params, initialMint, value)
    IN  /\ reason = "ok" => Len(agents) < MaxAgents
        /\ lastCall' = [op |-> "createAgent", sender |-> caller,
                        reason |-> reason, replay |-> FALSE]
        /\ agents' = IF reason = "ok"
                     THEN ERC1155Mint(storeAgent(agents, caller, params,
                                                 initialMint),
                                      caller, Len(agents), initialMint)
                     ELSE agents
        /\ usedHashes' = IF reason = "ok" THEN markHashUsed(usedHashes, params)
                         ELSE usedHashes
        /\ UNCHANGED <<ledgerVars, now, lastQuorum, acceptedLog, post,
                       pauseVars>>

\* the loop of batchCreateAgents from entry i: the agents stored when it
\* ends and the reason it reverted with, or "ok"
RECURSIVE BatchLoop(_, _, _, _, _, _)
BatchLoop(stored, used, caller, params, initialMints, i) ==
    IF i > Len(params)
        THEN [agents |-> stored, used |-> used, reason |-> "ok"]
    ELSE IF validateAgentParams(params[i], initialMints[i]) # "ok"
        THEN [agents |-> stored, used |-> used,
              reason |-> validateAgentParams(params[i], initialMints[i])]
    ELSE IF isHashUsed(used, params[i].lighthouseHash)
        THEN [agents |-> stored, used |-> used,
              reason |-> "Lighthouse hash already used"]
    ELSE BatchLoop(ERC1155Mint(storeAgent(stored, caller, params[i],
                                          initialMints[i]),
                               caller, Len(stored), initialMints[i]),
                   markHashUsed(used, params[i]),
                   caller, params, initialMints, i + 1)

\* the reason batchCreateAgents reverts with, or "ok"
BatchOutcome(caller, params, initialMints, value) ==
    IF mintingPaused THEN "Minting is paused"
    ELSE IF ~onlyVerifiedCreator(caller) THEN NotVerifiedReason
    ELSE IF ~(Len(params) > 0 /\ Len(params) <= maxBatchSize)
        THEN "Invalid batch size"
    ELSE IF Len(params) # Len(initialMints) THEN "Length mismatch"
    ELSE IF ~(value >= mintingFee * Len(params))
        THEN "Insufficient minting fee"
    ELSE BatchLoop(agents, usedHashes, caller, params, initialMints, 1).reason

batchCreateAgents(caller, params, initialMints, value) ==
    LET reason == BatchOutcome(caller, params, initialMints, value)
    IN  /\ reason = "ok" => Len(agents) + Len(params) <= MaxAgents
        /\ lastCall' = [op |-> "batchCreateAgents", sender |-> caller,
                        reason |-> reason, replay |-> FALSE]
        /\ agents' = IF reason = "ok"
                     THEN BatchLoop(agents, usedHashes, caller, params,
                                    initialMints, 1).agents
                     ELSE agents
        /\ usedHashes' = IF reason = "ok"
                         THEN BatchLoop(agents, usedHashes, caller, params,
                                        initialMints, 1).used
                         ELSE usedHashes
        /\ UNCHANGED <<ledgerVars, now, lastQuorum, acceptedLog, post,
                       pauseVars>>

(***************************************************************************)
(* Inputs of the transactions                                              *)
(***************************************************************************)
Callers == {Owner, Subject}

GoodData(timestamp) ==
    [lighthouseHash |-> "bafkreiA", datasetSize |-> 5000,
     trainingEpochs |-> 50, accuracy |-> 9000, timestamp |-> timestamp,
     dataHash |-> "d1"]

\* claims stamped with the current block time, and the claim of the
\* deployment block submitted once more
DataInputs == {GoodData(now), GoodData(Genesis)}

\* sequences over a set, up to a length
RECURSIVE SeqsUpTo(_, _)
SeqsUpTo(S, n) ==
    IF n = 0 THEN {<<>>}
    ELSE LET shorter == SeqsUpTo(S, n - 1)
         IN  shorter \cup
             {Append(q, e) : q \in {r \in shorter : Len(r) = n - 1}, e \in S}

\* what a node signs for the call of `sender` with claim d
Digest(sender, d) == ToEthSignedMessageHash(MessageHash(sender, d))

\* entries signed by the node they name
HonestEntries(sender, d) ==
    {NodeSig(n, SignatureOf(n, Digest(sender, d))) : n \in NodeAddrs}

\* entries naming a node but signed by an outsider, or signed by the
\* named node for another sender
ForeignEntries(sender, d) ==
    {NodeSig("n1", SignatureOf(Outsider, Digest(sender, d))),
     NodeSig("n2", SignatureOf("n2", Digest(Outsider, d)))}

\* the answers of the first k nodes of the deployment, in order
NodeOrder == <<"n1", "n2", "n3">>
HonestLists(sender, d) ==
    {[i \in 1..k |-> NodeSig(NodeOrder[i],
                             SignatureOf(NodeOrder[i], Digest(sender, d)))] :
         k \in 0..Len(NodeOrder)}

(***************************************************************************)
(* What a nodeSignatures array contains, measured apart from the loop of   *)
(* the contract: entry i is valid when its signer recovers to the node it  *)
(* names and that node is trusted.                                         *)
(***************************************************************************)
RecoveredAt(sender, d, nodeSignatures, i) ==
    Recover(Digest(sender, d), nodeSignatures[i].signature)

ValidEntries(sender, d, nodeSignatures) ==
    {i \in 1..Len(nodeSignatures) :
        /\ trustedLighthouseNodes[nodeSignatures[i].nodeAddress]
        /\ RecoveredAt(sender, d, nodeSignatures, i) =
               nodeSignatures[i].nodeAddress}

QuorumOf(sender, d, nodeSignatures) ==
    [\* the replay key of the claim the array came with
     key |-> VerificationHash(sender, d),
     len |-> Len(nodeSignatures),
     \* the count the contract compared with the threshold, -1 on a revert
     counted |-> CountValidSignatures(MessageHash(sender, d), nodeSignatures, 1),
     \* the distinct trusted nodes with a valid signature
     distinct |-> Cardinality({nodeSignatures[i].nodeAddress :
                      i \in ValidEntries(sender, d, nodeSignatures)}),
     \* the entries naming a node that is not trusted
     untrustedNamed |-> Cardinality({i \in 1..Len(nodeSignatures) :
                      ~trustedLighthouseNodes[nodeSignatures[i].nodeAddress]}),
     \* the entries whose recovered signer is trusted
     trustedSigned |-> Cardinality({i \in 1..Len(nodeSignatures) :
                      trustedLighthouseNodes[
                          RecoveredAt(sender, d, nodeSignatures, i)]}),
     \* the entries naming a trusted node whose recovered signer is not trusted
     forged |-> Cardinality({i \in 1..Len(nodeSignatures) :
                      /\ trustedLighthouseNodes[nodeSignatures[i].nodeAddress]
                      /\ ~trustedLighthouseNodes[
                             RecoveredAt(sender, d, nodeSignatures, i)]})]

NoQuorum ==
    [key |-> <<>>, len |-> 0, counted |-> 0, distinct |-> 0, untrustedNamed |-> 0,
     trustedSigned |-> 0, forged |-> 0]

(***************************************************************************)
(* The ledger as a state machine: direct transactions and block time       *)
(***************************************************************************)
ConstructorArgs == {<<"n1", "n2", "n3">>}

Constructed(trustedNodes) ==
    /\ \A i \in 1..Len(trustedNodes) : trustedNodes[i] # ZeroAddress
    /\ creatorVerifications = [a \in Accounts |-> ZeroVerification]
    /\ trustedLighthouseNodes =
           [a \in Accounts \cup NodeAddrs \cup {"n4", Outsider, Unrecovered} |->
                \E i \in 1..Len(trustedNodes) : trustedNodes[i] = a]
    /\ trustedNodesList = trustedNodes
    /\ usedVerificationHashes = {}
    /\ requiredNodeSignatures = DefaultRequired
    /\ verificationExpiryDuration = DefaultExpiry

Init ==
    /\ \E trustedNodes \in ConstructorArgs : Constructed(trustedNodes)
    /\ now = Genesis
    /\ lastCall = [op |-> "constructor", sender |-> Owner, reason |-> "ok",
                   replay |-> FALSE]
    /\ lastQuorum = NoQuorum
    /\ acceptedLog = <<>>
    /\ post = IdlePost
    /\ agents = <<>>
    /\ usedHashes = {}
    /\ mintingPaused = FALSE

verifyCreatorWithZkTLS ==
    \E sender \in Senders, d \in DataInputs :
        \E nodeSignatures \in HonestLists(sender, d) :
            /\ VerifyTx(sender, d, nodeSignatures)
            /\ UNCHANGED <<lastQuorum, post, agents, usedHashes, pauseVars>>

Tick ==
    /\ \E t \in TimePoints : t > now /\ now' = t
    /\ UNCHANGED <<ledgerVars, lastCall, lastQuorum, acceptedLog, post, agents, usedHashes, pauseVars>>

AddNode == \E c \in Callers, n \in {"n3", ZeroAddress} : addTrustedNode(c, n)
RemoveNode == \E c \in Callers, n \in {"n3", Outsider} : removeTrustedNode(c, n)
SetRequired == \E c \in Callers, r \in 0..4 : setRequiredNodeSignatures(c, r)
SetExpiry ==
    \E c \in Callers,
       d \in {MinExpiry - 1, DefaultExpiry + 1, MaxExpiry + 1} :
        setVerificationExpiryDuration(c, d)
EmergencyRemove == \E c \in Callers, s \in Senders : emergencyRemoveVerification(c, s)

Next ==
    \/ verifyCreatorWithZkTLS
    \/ Tick
    \/ AddNode
    \/ RemoveNode
    \/ SetRequired
    \/ SetExpiry
    \/ EmergencyRemove

Spec == Init /\ [][Next]_vars

(***************************************************************************)
(* The quorum evaluation on its own: one creator submits one claim with    *)
(* every array of honest and foreign entries, while the owner removes      *)
(* nodes and moves the threshold.                                          *)
(***************************************************************************)
QuorumSubmit ==
    \E nodeSignatures \in
           SeqsUpTo(HonestEntries(Subject, GoodData(now)) \cup
                    ForeignEntries(Subject, GoodData(now)), MaxQuorumSigs) :
        /\ VerifyTx(Subject, GoodData(now), nodeSignatures)
        /\ lastQuorum' = QuorumOf(Subject, GoodData(now), nodeSignatures)
        /\ UNCHANGED <<post, agents, usedHashes, pauseVars>>

QuorumRemoveNode ==
    /\ \E n \in NodeAddrs : removeTrustedNode(Owner, n)
    /\ lastCall'.reason = "ok"

QuorumSetRequired ==
    /\ \E r \in 1..Cardinality(NodeAddrs) : setRequiredNodeSignatures(Owner, r)
    /\ lastCall'.reason = "ok"

NextQuorum ==
    \/ QuorumSubmit
    \/ QuorumRemoveNode
    \/ QuorumSetRequired

SpecQuorum == Init /\ [][NextQuorum]_vars

(***************************************************************************)
(* The gates of verifyCreatorWithZkTLS on their own: one creator submits   *)
(* claims that fail each require in turn, with arrays that do and do not   *)
(* reach the quorum, while time passes and the owner removes a node.       *)
(***************************************************************************)
GateData ==
    {GoodData(now), GoodData(Genesis),
     [GoodData(now) EXCEPT !.lighthouseHash = ""],
     [GoodData(now) EXCEPT !.accuracy = MaxAccuracy + 1],
     [GoodData(now) EXCEPT !.timestamp = 0],
     [GoodData(now) EXCEPT !.timestamp = now + FutureWindow + 1]}

\* the honest arrays, and the full array with its first entry forged
GateLists(sender, d) ==
    HonestLists(sender, d) \cup
    {<<NodeSig("n1", SignatureOf(Outsider, Digest(sender, d))),
       NodeSig("n2", SignatureOf("n2", Digest(sender, d))),
       NodeSig("n3", SignatureOf("n3", Digest(sender, d)))>>}

GateSubmit ==
    \E d \in GateData :
        \E nodeSignatures \in GateLists(Subject, d) :
            /\ VerifyTx(Subject, d, nodeSignatures)
            /\ lastQuorum' = QuorumOf(Subject, d, nodeSignatures)
            /\ UNCHANGED <<post, agents, usedHashes, pauseVars>>

GateTick ==
    /\ \E t \in TimePoints : t > now /\ now' = t
    /\ UNCHANGED <<ledgerVars, lastCall, lastQuorum, acceptedLog, post, agents, usedHashes, pauseVars>>

GateRemoveNode == removeTrustedNode(Owner, "n3")

GateEmergencyRemove == emergencyRemoveVerification(Owner, Subject)

NextGates ==
    \/ GateSubmit
    \/ GateTick
    \/ GateRemoveNode
    \/ GateEmergencyRemove

SpecGates == Init /\ [][NextGates]_vars

(***************************************************************************)
(* Claims stamped at, inside and outside the edges of the time window.     *)
(***************************************************************************)
WindowData ==
    {GoodData(now), GoodData(0),
     GoodData(now + FutureWindow), GoodData(now + FutureWindow + 1),
     GoodData(now - StaleWindow), GoodData(now - StaleWindow - 1)}

WindowSubmit ==
    \E d \in WindowData :
        \E nodeSignatures \in GateLists(Subject, d) :
            /\ VerifyTx(Subject, d, nodeSignatures)
            /\ lastQuorum' = QuorumOf(Subject, d, nodeSignatures)
            /\ UNCHANGED <<post, agents, usedHashes, pauseVars>>

NextWindow ==
    \/ WindowSubmit
    \/ GateTick

SpecWindow == Init /\ [][NextWindow]_vars

(***************************************************************************)
(* Minting in front of the ledger: creators verify, create agents one by   *)
(* one and in batches, time passes and the owner clears a record.          *)
(***************************************************************************)
(***************************************************************************)
(* Minting of stored agents: mintAgent (AIAgentBatchNFT.sol:277-313),      *)
(* batchMintAgents and toggleAgentStatus (part_012:159-209, 243-250).      *)
(***************************************************************************)
\* type(uint256).max, the width scaled down to 8 bits
UintMax == 255

\* the validation with the supply check of line 29 left out
validateMint_NoSupplyCheck(currentSupply, maxSupply, amount, isActive) ==
    IF ~isActive THEN "Not active"
    ELSE IF currentSupply + amount > UintMax THEN "panic"
    ELSE "ok"

\* ValidationLib.validateMint: the reason it reverts with, or "ok"; the
\* checked addition of line 29 reverts with a panic when it overflows
validateMint(currentSupply, maxSupply, amount, isActive) ==
    IF ~isActive THEN "Not active"
    ELSE IF currentSupply + amount > UintMax THEN "panic"
    ELSE IF ~(currentSupply + amount <= maxSupply) THEN "Exceeds supply"
    ELSE "ok"

MintToZero == "ERC1155: mint to the zero address"

\* the gates of mintAgent without the creator branch of line 305
MintOutcome_NoCreatorCheck(caller, tokenId, amount, to, value) ==
    LET agent == getAgentData(agents, tokenId)
        valid == validateMint(agent.currentSupply, agent.maxSupply, amount,
                              agent.isActive)
    IN  IF mintingPaused THEN "Minting is paused"
        ELSE IF valid # "ok" THEN valid
        ELSE IF caller # agent.creator /\ ~agent.allowPublicMint
            THEN "Public minting not allowed"
        ELSE IF caller # agent.creator /\ agent.mintPrice * amount > UintMax
            THEN "panic"
        ELSE IF caller # agent.creator /\ ~(value >= agent.mintPrice * amount)
            THEN "Insufficient payment"
        ELSE IF to = ZeroAddress THEN MintToZero
        ELSE "ok"

\* the reason mintAgent reverts with, or "ok"
MintOutcome(caller, tokenId, amount, to, value) ==
    LET agent == getAgentData(agents, tokenId)
        valid == validateMint(agent.currentSupply, agent.maxSupply, amount,
                              agent.isActive)
    IN  IF mintingPaused THEN "Minting is paused"
        ELSE IF valid # "ok" THEN valid
        ELSE IF caller # agent.creator /\ ~agent.allowPublicMint
            THEN "Public minting not allowed"
        ELSE IF caller # agent.creator /\ agent.mintPrice * amount > UintMax
            THEN "panic"
        ELSE IF caller # agent.creator /\ ~(value >= agent.mintPrice * amount)
            THEN "Insufficient payment"
        ELSE IF caller = agent.creator /\ ~isCreatorVerified(agent.creator)
            THEN "Creator verification expired"
        ELSE IF to = ZeroAddress THEN MintToZero
        ELSE "ok"

mintAgent(caller, tokenId, amount, to, value) ==
    LET reason == MintOutcome(caller, tokenId, amount, to, value)
        minting == getAgentData(agents, tokenId)
    IN  /\ lastCall' = [op |-> "mintAgent", sender |-> caller,
                        reason |-> reason, replay |-> FALSE]
        /\ agents' =
               IF reason = "ok"
               THEN ERC1155Mint(updateSupply(agents, tokenId,
                                             minting.currentSupply + amount),
                                to, tokenId, amount)
               ELSE agents
        /\ UNCHANGED <<ledgerVars, now, lastQuorum, acceptedLog, post,
                       usedHashes, pauseVars>>

\* the loop of batchMintAgents from entry i (part_012:169-189): every
\* iteration reads the agent from storage anew
RECURSIVE BatchMintLoop(_, _, _, _, _, _)
BatchMintLoop(stored, caller, tokenIds, amounts, i, totalCost) ==
    IF i > Len(tokenIds)
        THEN [agents |-> stored, reason |-> "ok", totalCost |-> totalCost]
    ELSE LET agent == getAgentData(stored, tokenIds[i])
             valid == validateMint(agent.currentSupply, agent.maxSupply,
                                   amounts[i], agent.isActive)
             stop(reason) == [agents |-> stored, reason |-> reason,
                              totalCost |-> totalCost]
         IN  IF valid # "ok" THEN stop(valid)
             ELSE IF caller # agent.creator /\ ~agent.allowPublicMint
                 THEN stop("No public mint")
             ELSE IF caller # agent.creator /\
                     totalCost + agent.mintPrice * amounts[i] > UintMax
                 THEN stop("panic")
             ELSE BatchMintLoop(
                      updateSupply(stored, tokenIds[i],
                                   agent.currentSupply + amounts[i]),
                      caller, tokenIds, amounts, i + 1,
                      IF caller # agent.creator
                      THEN totalCost + agent.mintPrice * amounts[i]
                      ELSE totalCost)

\* ERC1155._mintBatch: the balances of `to` grow entry by entry
RECURSIVE ERC1155MintBatch(_, _, _, _, _)
ERC1155MintBatch(stored, to, tokenIds, amounts, i) ==
    IF i > Len(tokenIds) THEN stored
    ELSE ERC1155MintBatch(ERC1155Mint(stored, to, tokenIds[i], amounts[i]),
                          to, tokenIds, amounts, i + 1)

\* the reason batchMintAgents reverts with, or "ok"
BatchMintOutcome(caller, tokenIds, amounts, to, value) ==
    IF mintingPaused THEN "Paused"
    ELSE IF Len(tokenIds) # Len(amounts) THEN "Length mismatch"
    ELSE IF ~(Len(tokenIds) > 0 /\ Len(tokenIds) <= maxBatchSize)
        THEN "Invalid batch size"
    ELSE LET loop == BatchMintLoop(agents, caller, tokenIds, amounts, 1, 0)
         IN  IF loop.reason # "ok" THEN loop.reason
             ELSE IF ~(value >= loop.totalCost) THEN "Insufficient payment"
             ELSE IF to = ZeroAddress THEN MintToZero
             ELSE "ok"

batchMintAgents(caller, tokenIds, amounts, to, value) ==
    LET reason == BatchMintOutcome(caller, tokenIds, amounts, to, value)
    IN  /\ lastCall' = [op |-> "batchMintAgents", sender |-> caller,
                        reason |-> reason, replay |-> FALSE]
        /\ agents' =
               IF reason = "ok"
               THEN ERC1155MintBatch(
                        BatchMintLoop(agents, caller, tokenIds, amounts, 1,
                                      0).agents,
                        to, tokenIds, amounts, 1)
               ELSE agents
        /\ UNCHANGED <<ledgerVars, now, lastQuorum, acceptedLog, post,
                       usedHashes, pauseVars>>

\* pauseMinting without the modifier onlyOwner
pauseMinting_AnyCaller(caller) ==
    /\ lastCall' = [op |-> "pauseMinting", sender |-> caller,
                    reason |-> "ok", replay |-> FALSE]
    /\ mintingPaused' = TRUE
    /\ UNCHANGED <<ledgerVars, now, lastQuorum, acceptedLog, post, agents,
                   usedHashes>>

\* part_012:298-300
pauseMinting(caller) ==
    LET reason == IF caller # Owner THEN "Ownable: caller is not the owner"
                  ELSE "ok"
    IN  /\ lastCall' = [op |-> "pauseMinting", sender |-> caller,
                        reason |-> reason, replay |-> FALSE]
        /\ mintingPaused' = IF reason = "ok" THEN TRUE ELSE mintingPaused
        /\ UNCHANGED <<ledgerVars, now, lastQuorum, acceptedLog, post, agents,
                       usedHashes>>

\* part_012:302-304
unpauseMinting(caller) ==
    LET reason == IF caller # Owner THEN "Ownable: caller is not the owner"
                  ELSE "ok"
    IN  /\ lastCall' = [op |-> "unpauseMinting", sender |-> caller,
                        reason |-> reason, replay |-> FALSE]
        /\ mintingPaused' = IF reason = "ok" THEN FALSE ELSE mintingPaused
        /\ UNCHANGED <<ledgerVars, now, lastQuorum, acceptedLog, post, agents,
                       usedHashes>>

\* part_012:243-250
toggleAgentStatus(caller, tokenId) ==
    LET core == getAgentData(agents, tokenId)
        reason == IF core.creator # caller THEN "Not creator" ELSE "ok"
    IN  /\ lastCall' = [op |-> "toggleAgentStatus", sender |-> caller,
                        reason |-> reason, replay |-> FALSE]
        /\ agents' = IF reason = "ok" THEN toggleActive(agents, tokenId)
                     ELSE agents
        /\ UNCHANGED <<ledgerVars, now, lastQuorum, acceptedLog, post,
                       usedHashes, pauseVars>>

ParamsInputs ==
    {AgentParams("agent", h, 9000, 10, 1, TRUE) :
        h \in {"bafkreiA", "bafkreiB", ""}}

MintVerify ==
    \E sender \in Senders :
        /\ VerifyTx(sender, GoodData(now),
                    [i \in 1..Len(NodeOrder) |->
                         NodeSig(NodeOrder[i],
                             SignatureOf(NodeOrder[i],
                                         Digest(sender, GoodData(now))))])
        /\ UNCHANGED <<lastQuorum, post, agents, usedHashes, pauseVars>>

MintCreateAgent ==
    \E caller \in Senders, params \in ParamsInputs, value \in {0, mintingFee} :
        createAgent(caller, params, 1, value)

MintBatchCreateAgents ==
    \E caller \in Senders, params \in SeqsUpTo(ParamsInputs, 2),
       value \in {0, 2 * mintingFee} :
        batchCreateAgents(caller, params, [i \in 1..Len(params) |-> 1], value)

MintTick ==
    /\ \E t \in TimePoints : t > now /\ now' = t
    /\ UNCHANGED <<ledgerVars, lastCall, lastQuorum, acceptedLog, post, agents, usedHashes, pauseVars>>

MintEmergencyRemove ==
    \E s \in Senders : emergencyRemoveVerification(Owner, s)

NextMint ==
    \/ MintVerify
    \/ MintCreateAgent
    \/ MintBatchCreateAgents
    \/ MintTick
    \/ MintEmergencyRemove

SpecMint == Init /\ [][NextMint]_vars

(***************************************************************************)
(* The route /api/zktls, route.ts, and the service it calls,               *)
(* zkTLSVerificationService (part_008).  A request is served in steps, one *)
(* per await: the status read, the proof verification, the collection of   *)
(* node signatures, the transaction.                                       *)
(***************************************************************************)
\* JavaScript values of the request body
Str(v) == [kind |-> "string", val |-> v]
Arr(n) == [kind |-> "array", len |-> n]
Truthy(v) ==
    \/ v.kind \in {"array", "object"}
    \/ v.kind = "string" /\ v.val # ""

ClaimDataOf(provider, owner) ==
    [kind |-> "object", provider |-> Str(provider), owner |-> Str(owner)]
ProofOf(identifier, claimData, signatures, witnesses) ==
    [kind |-> "object", identifier |-> Str(identifier), claimData |-> claimData,
     signatures |-> signatures, witnesses |-> witnesses]

\* part_008:300-312
validateZkTLSProof(proof) ==
    /\ Truthy(proof)
    /\ Truthy(proof.identifier)
    /\ Truthy(proof.claimData)
    /\ Truthy(proof.signatures)
    /\ proof.signatures.kind = "array"
    /\ Truthy(proof.witnesses)
    /\ proof.witnesses.kind = "array"
    /\ Truthy(proof.claimData.provider)
    /\ Truthy(proof.claimData.owner)

\* sample request strings: ethers.isAddress, startsWith('bafkrei'), length
AddressInputs == {Subject, ZeroAddress, Wallet, "0xzz", ""}
isAddress(a) == a \in {Subject, ZeroAddress, Wallet}
CidInputs == {"bafkreiabc", "bafkrei", "QmYwAPJzv5", ""}
StartsWithBafkrei(h) == h \in {"bafkreiabc", "bafkrei"}
CidLength(h) ==
    IF h = "bafkreiabc" THEN 10
    ELSE IF h = "bafkrei" THEN 7
    ELSE IF h = "QmYwAPJzv5" THEN 10
    ELSE 0
ProofInputs ==
    {Null,
     ProofOf("id", ClaimDataOf("http", Subject), Arr(1), Arr(1)),
     ProofOf("id", ClaimDataOf("http", Subject), Arr(1), Arr(0)),
     ProofOf("", ClaimDataOf("http", Subject), Arr(1), Arr(1))}

\* every shape of the proof object: each field missing, empty or filled
ProofShapes ==
    {Null} \cup
    {ProofOf(identifier, claimData, signatures, witnesses) :
        identifier \in {"", "id"},
        claimData \in {Null} \cup
            {ClaimDataOf(provider, owner) :
                provider \in {"", "http"}, owner \in {"", Subject}},
        signatures \in {Null, Str("sig"), Arr(0), Arr(1)},
        witnesses \in {Null, Str("w"), Arr(0), Arr(1)}}

\* validations.ts:4-24, zkTLSProofSchema: the fields and the lengths asked
\* of a proof
zkTLSProofSchema(proof) ==
    /\ proof.kind = "object"
    /\ proof.identifier.kind = "string" /\ proof.identifier.val # ""
    /\ proof.claimData.kind = "object"
    /\ proof.claimData.provider.val # ""
    /\ proof.claimData.owner.val # ""
    /\ proof.signatures.kind = "array" /\ proof.signatures.len >= 1
    /\ proof.witnesses.kind = "array" /\ proof.witnesses.len >= 1

\* this.nodeUrls, part_008:91
NodeUrlCount == 5
\* successfulVerifications.length < 3, part_008:220; nodeSignatures.length < 3,
\* route.ts:126
MinNodeAnswers == 3

Respond(p, status, error) ==
    [p EXCEPT !.pc = "done", !.response = [status |-> status, error |-> error],
              !.lighthouseHash = "", !.proof = Null, !.agentData = ZeroData,
              !.nodeSignatures = <<>>, !.verificationData = ZeroData]

\* part_008:339-361: the stand-in for the decrypted file
decryptAndParseAgentData(cid) ==
    [lighthouseHash |-> cid, datasetSize |-> 10000, trainingEpochs |-> 100,
     accuracy |-> 9500, modelType |-> "transformer", creator |-> ZeroAddress,
     timestamp |-> now]

\* String.prototype.toLowerCase on the sample addresses: Subject, Wallet
\* and ZeroAddress are lower-case spellings, SubjectChecksum is Subject's
\* address in its mixed-case (EIP-55) spelling
SubjectChecksum == "S (mixed case)"
ToLowerCase(a) == IF a = SubjectChecksum THEN Subject ELSE a

\* the checks of lines 366-377 with the comparison of the creator left out
validateAgentData_NoCreatorCheck(data, expectedCreator) ==
    /\ data.lighthouseHash # ""
    /\ data.datasetSize > 0
    /\ data.trainingEpochs > 0
    /\ data.accuracy >= 0 /\ data.accuracy <= 10000
    /\ data.modelType # ""
    /\ data.timestamp > 0

\* part_008:366-378
validateAgentData(data, expectedCreator) ==
    /\ data.lighthouseHash # ""
    /\ data.datasetSize > 0
    /\ data.trainingEpochs > 0
    /\ data.accuracy >= 0 /\ data.accuracy <= 10000
    /\ data.modelType # ""
    /\ data.timestamp > 0
    /\ ToLowerCase(data.creator) = ToLowerCase(expectedCreator)

\* route.ts:62-100 with the check of lines 85-93 left out
ReceiveResult_NoVerifiedCheck(creatorAddress, lighthouseHash, proof, rpcOk) ==
    LET p == [IdlePost EXCEPT !.creatorAddress = creatorAddress,
                              !.lighthouseHash = lighthouseHash,
                              !.proof = proof]
    IN  IF creatorAddress = "" \/ lighthouseHash = "" \/ ~Truthy(proof)
            THEN Respond(p, 400, "Missing required fields")
        ELSE IF ~isAddress(creatorAddress)
            THEN Respond(p, 400, "Invalid Ethereum address format")
        ELSE IF ~StartsWithBafkrei(lighthouseHash) \/
                CidLength(lighthouseHash) < 10
            THEN Respond(p, 400, "Invalid Lighthouse hash format")
        ELSE [p EXCEPT !.pc = "proof"]

\* route.ts:62-100: input validation and the read of isCreatorVerified;
\* the request as it stands when the step ends
ReceiveResult(creatorAddress, lighthouseHash, proof, rpcOk) ==
    LET p == [IdlePost EXCEPT !.creatorAddress = creatorAddress,
                              !.lighthouseHash = lighthouseHash,
                              !.proof = proof]
    IN  IF creatorAddress = "" \/ lighthouseHash = "" \/ ~Truthy(proof)
            THEN Respond(p, 400, "Missing required fields")
        ELSE IF ~isAddress(creatorAddress)
            THEN Respond(p, 400, "Invalid Ethereum address format")
        ELSE IF ~StartsWithBafkrei(lighthouseHash) \/
                CidLength(lighthouseHash) < 10
            THEN Respond(p, 400, "Invalid Lighthouse hash format")
        ELSE IF ~rpcOk
            THEN Respond(p, 500, "Failed to check existing verification status")
        ELSE IF isCreatorVerified(creatorAddress)
            THEN Respond(p, 409, "Creator is already verified")
        ELSE [p EXCEPT !.pc = "proof"]

\* route.ts:57-100
PostReceive(creatorAddress, lighthouseHash, proof, rpcOk) ==
    /\ post.pc \in {"idle", "done"}
    /\ post' = ReceiveResult(creatorAddress, lighthouseHash, proof, rpcOk)
    /\ UNCHANGED <<ledgerVars, now, lastCall, lastQuorum, acceptedLog,
                       agents, usedHashes, pauseVars>>

\* part_008:218-260: what verifyAgentCreatorProof does once the node
\* requests have settled, `payloads` of them with a payload
AfterFanout(q, payloads) ==
    LET agentData == decryptAndParseAgentData(q.lighthouseHash)
    IN  IF payloads < MinNodeAnswers
            THEN Respond(q, 400, "Insufficient node verifications")
        ELSE IF ~validateAgentData(agentData, q.creatorAddress)
            THEN Respond(q, 400, "Agent data validation failed")
        ELSE [q EXCEPT !.pc = "sign", !.agentData = agentData,
                       !.proof = Null]

\* route.ts:102-117 and part_008:172-269: verifyAgentCreatorProof.  authOk
\* is whether signAuthMessage got its message, payloads the number of node
\* answers that carry a payload; the proof is not read again afterwards
PostVerifyProof(authOk, payloads) ==
    /\ post.pc = "proof"
    /\ post' =
           IF ~validateZkTLSProof(post.proof)
               THEN Respond(post, 400, "Invalid zkTLS proof structure")
           ELSE IF ~authOk
               THEN Respond(post, 400, "Verification failed")
           ELSE AfterFanout([post EXCEPT !.nodeCalls = @ + NodeUrlCount],
                            payloads)
    /\ UNCHANGED <<ledgerVars, now, lastCall, lastQuorum, acceptedLog,
                   agents, usedHashes, pauseVars>>

(***************************************************************************)
(* verifyAgentCreatorProof request by request, part_008:187-225: the map   *)
(* over nodeUrls issues every request, each answer settles its own         *)
(* promise, and Promise.all resumes the function when all have settled.    *)
(***************************************************************************)
\* how one request ends: response.data with a payload, response.data
\* without one, or the object the catch of lines 211-214 returns for a
\* timeout, a network error or a status outside 2xx
NodeResults == {"payload", "nopayload", "error"}

\* verificationResults.filter(r => r.payload).length
SuccessCount(nodes) ==
    Cardinality({i \in 1..Len(nodes) : nodes[i] = "payload"})

\* a failed request rejecting the whole fan-out: the others are given up
Settle_FailureAborts(nodes, i, result) ==
    IF result = "error"
    THEN [j \in 1..Len(nodes) |->
              IF j = i \/ nodes[j] = "pending" THEN "error" ELSE nodes[j]]
    ELSE [nodes EXCEPT ![i] = result]

\* lines 203-215: the promise of request i settles with its own result
Settle(nodes, i, result) == [nodes EXCEPT ![i] = result]

\* resuming as soon as three payloads are in
AllSettled_ThreePayloads(nodes) ==
    \/ SuccessCount(nodes) >= MinNodeAnswers
    \/ \A i \in 1..Len(nodes) : nodes[i] # "pending"

\* line 217: await Promise.all(verificationPromises)
AllSettled(nodes) == \A i \in 1..Len(nodes) : nodes[i] # "pending"

\* lines 178-216: validation, the auth message, then every request issued
FanoutDispatch(authOk) ==
    /\ post.pc = "proof"
    /\ post' =
           IF ~validateZkTLSProof(post.proof)
               THEN Respond(post, 400, "Invalid zkTLS proof structure")
           ELSE IF ~authOk
               THEN Respond(post, 400, "Verification failed")
           ELSE [post EXCEPT !.pc = "fanout",
                             !.nodeCalls = @ + NodeUrlCount,
                             !.nodes = [i \in 1..NodeUrlCount |-> "pending"]]
    /\ UNCHANGED <<ledgerVars, now, lastCall, lastQuorum, acceptedLog,
                   agents, usedHashes, pauseVars>>

FanoutSettle(i, result) ==
    /\ post.pc = "fanout"
    /\ i \in 1..Len(post.nodes)
    /\ post.nodes[i] = "pending"
    /\ post' = [post EXCEPT !.nodes = Settle(post.nodes, i, result)]
    /\ UNCHANGED <<ledgerVars, now, lastCall, lastQuorum, acceptedLog,
                   agents, usedHashes, pauseVars>>

\* lines 217-260
FanoutEvaluate ==
    /\ post.pc = "fanout"
    /\ AllSettled(post.nodes)
    /\ post' = AfterFanout(post, SuccessCount(post.nodes))
    /\ UNCHANGED <<ledgerVars, now, lastCall, lastQuorum, acceptedLog,
                   agents, usedHashes, pauseVars>>

\* route.ts:289-301: keccak256(AbiCoder.encode(creatorAddress, ...))
RouteMessageHash(creatorAddress, agentData, timestamp) ==
    <<"abi", creatorAddress, agentData.lighthouseHash, agentData.datasetSize,
      agentData.trainingEpochs, agentData.accuracy, timestamp>>

\* route.ts:314-316: the address of the wallet made up for node i
MockNodeWallet(i, nodeAddress) == <<"node", i, nodeAddress>>

\* route.ts:136-145
VerificationDataOf(agentData, currentTimestamp) ==
    [lighthouseHash |-> agentData.lighthouseHash,
     datasetSize |-> agentData.datasetSize,
     trainingEpochs |-> agentData.trainingEpochs,
     accuracy |-> agentData.accuracy, timestamp |-> currentTimestamp,
     dataHash |-> <<"keccak256", agentData>>]

\* What node i hands back for the request (route.ts:307-327).  "mock" is
\* the development stand-in of lines 314-317, a made-up wallet signing the
\* route's message hash; "attest" is a node signing, with its own key, the
\* digest the contract recomputes for the transaction of the route's wallet;
\* "fail" is a node whose request throws (line 323).
NodeAnswers == {"mock", "attest", "fail"}

NodeAnswer(kind, i, creatorAddress, agentData) ==
    IF kind = "mock"
    THEN NodeSig(ApiNodes[i],
             SignatureOf(MockNodeWallet(i, ApiNodes[i]),
                 ToEthSignedMessageHash(
                     RouteMessageHash(creatorAddress, agentData, now))))
    ELSE NodeSig(ApiNodes[i],
             SignatureOf(ApiNodes[i],
                 Digest(Wallet, VerificationDataOf(agentData, now))))

\* route.ts:281-336: the signatures pushed, in node order
RECURSIVE CollectSignatures(_, _, _, _)
CollectSignatures(answers, i, creatorAddress, agentData) ==
    IF i > Len(answers) THEN <<>>
    ELSE LET rest == CollectSignatures(answers, i + 1, creatorAddress, agentData)
         IN  IF answers[i] = "fail" THEN rest
             ELSE <<NodeAnswer(answers[i], i, creatorAddress, agentData)>> \o rest

\* route.ts:119-145: generateLighthouseNodeSignatures and the claim prepared
\* for the contract
PostSign(answers) ==
    LET nodeSignatures ==
            CollectSignatures(answers, 1, post.creatorAddress, post.agentData)
    IN  /\ post.pc = "sign"
        /\ post' =
               IF Len(nodeSignatures) < MinNodeAnswers
                   THEN Respond(post, 500, "Insufficient node signatures")
               ELSE [post EXCEPT !.pc = "submit",
                                 !.nodeSignatures = nodeSignatures,
                                 !.verificationData =
                                     VerificationDataOf(post.agentData, now)]
        /\ UNCHANGED <<ledgerVars, now, lastCall, lastQuorum, acceptedLog,
                       agents, usedHashes, pauseVars>>

\* route.ts:147-207: the transaction, sent by the wallet of PRIVATE_KEY.
\* reasonGiven is whether the error thrown for a revert carries the revert
\* reason (contractError.reason, or a "revert ...'" text in its message,
\* lines 197-202); without it the answer is the fixed text of line 196
PostSubmit(reasonGiven) ==
    /\ post.pc = "submit"
    /\ VerifyTx(Wallet, post.verificationData, post.nodeSignatures)
    /\ post' = IF lastCall'.reason = "ok"
               THEN Respond(post, 200, "")
               ELSE IF reasonGiven
               THEN Respond(post, 500, lastCall'.reason)
               ELSE Respond(post, 500, "Smart contract verification failed")
    /\ UNCHANGED <<lastQuorum, agents, usedHashes, pauseVars>>

\* what the array the route is about to submit contains
lastQuorumOfPost ==
    QuorumOf(Wallet, post.verificationData, post.nodeSignatures)

\* the texts of calculateTimeRemaining: 'Expired', `${days}d ${hours}h`,
\* `${hours}h`, `${minutes}m`
Expired == <<"Expired">>
DaysHours(days, hours) == <<"d h", days, hours>>
Hours(hours) == <<"h", hours>>
Minutes(minutes) == <<"m", minutes>>

\* the decomposition of a number of seconds, route.ts:347-355
TimeText(remaining) ==
    LET days == remaining \div (24 * 60 * 60)
        hours == (remaining % (24 * 60 * 60)) \div (60 * 60)
    IN  IF remaining <= 0 THEN Expired
        ELSE IF days > 0 THEN DaysHours(days, hours)
        ELSE IF hours > 0 THEN Hours(hours)
        ELSE Minutes(remaining \div 60)

\* route.ts:341-356
calculateTimeRemaining(verificationTime) ==
    LET expiryDuration == 30 * 24 * 60 * 60
        expiryTime == verificationTime + expiryDuration
        currentTime == now
    IN  TimeText(expiryTime - currentTime)

\* the answer of GET with canCreateNFT taken from isVerified alone
GetStatus_IgnoresExpiry(address) ==
    LET status == getCreatorVerificationStatus(address)
    IN  [isVerified |-> status.isVerified,
         verificationTime |-> status.verificationTime,
         isExpired |-> status.isExpired,
         canCreateNFT |-> status.isVerified,
         timeRemaining |->
             IF status.isVerified
             THEN calculateTimeRemaining(status.verificationTime)
             ELSE Null]

\* route.ts:222-275: GET /api/zktls?address=
GetStatus(address) ==
    LET status == getCreatorVerificationStatus(address)
        canCreateNFT == status.isVerified /\ ~status.isExpired
    IN  [isVerified |-> status.isVerified,
         verificationTime |-> status.verificationTime,
         isExpired |-> status.isExpired,
         canCreateNFT |-> canCreateNFT,
         timeRemaining |->
             IF canCreateNFT
             THEN calculateTimeRemaining(status.verificationTime)
             ELSE Null]

(***************************************************************************)
(* The route in front of the ledger                                        *)
(***************************************************************************)
ApiTimePoints == {Genesis, Genesis + 1000, Genesis + DefaultExpiry + 1}

ApiReceive ==
    \E creatorAddress \in AddressInputs, lighthouseHash \in CidInputs,
       proof \in ProofInputs, rpcOk \in BOOLEAN :
        PostReceive(creatorAddress, lighthouseHash, proof, rpcOk)

ApiVerifyProof ==
    \E authOk \in BOOLEAN, payloads \in {MinNodeAnswers - 1, MinNodeAnswers} :
        PostVerifyProof(authOk, payloads)

ApiSign ==
    \E answers \in [1..Len(ApiNodes) -> NodeAnswers] : PostSign(answers)

ApiSubmit == \E reasonGiven \in BOOLEAN : PostSubmit(reasonGiven)

\* a creator calling the contract with the signatures of all nodes
ApiDirectVerify ==
    /\ VerifyTx(Subject, GoodData(now),
                [i \in 1..Len(ApiNodes) |->
                     NodeSig(ApiNodes[i],
                         SignatureOf(ApiNodes[i],
                                     Digest(Subject, GoodData(now))))])
    /\ UNCHANGED <<lastQuorum, post, agents, usedHashes, pauseVars>>

ApiEmergencyRemove ==
    \E s \in {Subject, Wallet} : emergencyRemoveVerification(Owner, s)

ApiTick ==
    /\ \E t \in ApiTimePoints : t > now /\ now' = t
    /\ UNCHANGED <<ledgerVars, lastCall, lastQuorum, acceptedLog, post, agents, usedHashes, pauseVars>>

NextApi ==
    \/ ApiReceive
    \/ ApiVerifyProof
    \/ ApiSign
    \/ ApiSubmit
    \/ ApiDirectVerify
    \/ ApiEmergencyRemove
    \/ ApiTick

InitApi ==
    /\ Constructed(ApiNodes)
    /\ now = Genesis
    /\ lastCall = [op |-> "constructor", sender |-> Owner, reason |-> "ok",
                   replay |-> FALSE]
    /\ lastQuorum = NoQuorum
    /\ acceptedLog = <<>>
    /\ post = IdlePost
    /\ agents = <<>>
    /\ usedHashes = {}
    /\ mintingPaused = FALSE

SpecApi == InitApi /\ [][NextApi]_vars

(***************************************************************************)
(* The proof check on its own: a request for an unverified creator with    *)
(* every shape of proof, then verifyAgentCreatorProof                      *)
(***************************************************************************)
ProofReceive ==
    \E proof \in ProofShapes : PostReceive(Subject, "bafkreiabc", proof, TRUE)

ProofVerify ==
    \E payloads \in {MinNodeAnswers - 1, MinNodeAnswers} :
        PostVerifyProof(TRUE, payloads)

FanoutReceive ==
    \E creatorAddress \in {Subject, ZeroAddress} :
        PostReceive(creatorAddress, "bafkreiabc",
                    ProofOf("id", ClaimDataOf("http", Subject), Arr(1), Arr(1)),
                    TRUE)

FanoutIssue == \E authOk \in BOOLEAN : FanoutDispatch(authOk)

FanoutAnswer ==
    \E i \in 1..NodeUrlCount, result \in NodeResults : FanoutSettle(i, result)

NextFanout ==
    \/ FanoutReceive
    \/ FanoutIssue
    \/ FanoutAnswer
    \/ FanoutEvaluate

SpecFanout == InitApi /\ [][NextFanout]_vars

(***************************************************************************)
(* Supply: a verified creator stores agents, and the creator and a buyer   *)
(* mint them one by one and in batches.                                    *)
(***************************************************************************)
\* one agent open to public minting and one reserved to its creator
SupplyParams ==
    {AgentParams("agent", "bafkreiA", 9000, 3, 1, TRUE),
     AgentParams("agent", "bafkreiB", 9000, 3, 1, FALSE)}
InitialMints == {0, 2, 4}
MintAmounts == {0, 1, 2, UintMax}
\* the ids of the agents a run can store, and one beyond them
TokenIds == 0..MaxAgents
Minters == {Subject, Wallet}

SupplyVerify ==
    /\ VerifyTx(Subject, GoodData(now),
                [i \in 1..Len(NodeOrder) |->
                     NodeSig(NodeOrder[i],
                         SignatureOf(NodeOrder[i],
                                     Digest(Subject, GoodData(now))))])
    /\ UNCHANGED <<lastQuorum, post, agents, usedHashes, pauseVars>>

SupplyCreateAgent ==
    \E params \in SupplyParams, initialMint \in InitialMints :
        createAgent(Subject, params, initialMint, mintingFee)

SupplyBatchCreateAgents ==
    \E params \in SeqsUpTo(SupplyParams, 2) :
        \E initialMints \in [1..Len(params) -> InitialMints] :
            batchCreateAgents(Subject, params, initialMints, 2 * mintingFee)

SupplyMintAgent ==
    \E caller \in Minters, tokenId \in TokenIds, amount \in MintAmounts,
       value \in {0, 2} :
        mintAgent(caller, tokenId, amount, Wallet, value)

\* batches of one id, of one id twice, of two ids, and of an id never stored
BatchTokenIds == {<<0>>, <<0, 0>>, <<0, 1>>, <<1, 1>>, <<MaxAgents>>}

SupplyBatchMintAgents ==
    \E caller \in Minters, tokenIds \in BatchTokenIds :
        \E amounts \in [1..Len(tokenIds) -> {1, 2}] \cup {<<1>>} :
            batchMintAgents(caller, tokenIds, amounts, Wallet, 4)

SupplyToggleAgentStatus ==
    \E caller \in Minters, tokenId \in TokenIds :
        toggleAgentStatus(caller, tokenId)

SupplyEmergencyRemove == emergencyRemoveVerification(Owner, Subject)

NextSupply ==
    \/ SupplyVerify
    \/ SupplyCreateAgent
    \/ SupplyBatchCreateAgents
    \/ SupplyMintAgent
    \/ SupplyBatchMintAgents
    \/ SupplyToggleAgentStatus
    \/ SupplyEmergencyRemove

SpecSupply == Init /\ [][NextSupply]_vars

(***************************************************************************)
(* Minting by the creator and by another account while the creator's       *)
(* verification runs out or is cleared by the owner.                       *)
(***************************************************************************)
NextCreatorMint ==
    \/ SupplyVerify
    \/ SupplyCreateAgent
    \/ SupplyBatchCreateAgents
    \/ SupplyMintAgent
    \/ MintTick
    \/ SupplyEmergencyRemove

SpecCreatorMint == Init /\ [][NextCreatorMint]_vars

(***************************************************************************)
(* Administration: the owner and another account call the three node       *)
(* operations while a creator verifies, creates an agent and mints.        *)
(***************************************************************************)
AdminAddNode ==
    \E c \in Callers, n \in {"n3", "n4", ZeroAddress} : addTrustedNode(c, n)

AdminRemoveNode ==
    \E c \in Callers, n \in {"n2", "n3"} : removeTrustedNode(c, n)

AdminSetRequired ==
    \E c \in Callers, r \in 0..4 : setRequiredNodeSignatures(c, r)

AdminVerify ==
    \E nodeSignatures \in HonestLists(Subject, GoodData(now)) :
        /\ VerifyTx(Subject, GoodData(now), nodeSignatures)
        /\ UNCHANGED <<lastQuorum, post, agents, usedHashes, pauseVars>>

AdminCreateAgent ==
    createAgent(Subject, AgentParams("agent", "bafkreiA", 9000, 3, 1, TRUE), 1,
                mintingFee)

AdminMintAgent ==
    \E caller \in Minters, amount \in {1, 3} :
        mintAgent(caller, 0, amount, Wallet, 2)

NextAdmin ==
    \/ AdminAddNode
    \/ AdminRemoveNode
    \/ AdminSetRequired
    \/ AdminVerify
    \/ AdminCreateAgent
    \/ AdminMintAgent

SpecAdmin == Init /\ [][NextAdmin]_vars

(***************************************************************************)
(* Pause: the owner and another account pause and unpause minting while a  *)
(* verified creator creates agents and both mint.                          *)
(***************************************************************************)
PauseVerify ==
    /\ VerifyTx(Subject, GoodData(now),
                [i \in 1..Len(NodeOrder) |->
                     NodeSig(NodeOrder[i],
                         SignatureOf(NodeOrder[i],
                                     Digest(Subject, GoodData(now))))])
    /\ UNCHANGED <<lastQuorum, post, agents, usedHashes, pauseVars>>

PauseCreateAgent ==
    \E params \in SupplyParams : createAgent(Subject, params, 1, mintingFee)

PauseBatchCreateAgents ==
    \E params \in SupplyParams :
        batchCreateAgents(Subject, <<params>>, <<1>>, mintingFee)

PauseMintAgent ==
    \E caller \in Minters, tokenId \in 0..1 :
        mintAgent(caller, tokenId, 1, Wallet, 2)

PauseBatchMintAgents ==
    \E caller \in Minters, tokenIds \in {<<0>>, <<0, 1>>} :
        batchMintAgents(caller, tokenIds, [i \in 1..Len(tokenIds) |-> 1],
                        Wallet, 4)

PausePauseMinting == \E c \in Callers : pauseMinting(c)

PauseUnpauseMinting == \E c \in Callers : unpauseMinting(c)

NextPause ==
    \/ PauseVerify
    \/ PauseCreateAgent
    \/ PauseBatchCreateAgents
    \/ PauseMintAgent
    \/ PauseBatchMintAgents
    \/ PausePauseMinting
    \/ PauseUnpauseMinting

SpecPause == Init /\ [][NextPause]_vars

(***************************************************************************)
(* The registry of trusted nodes from every constructor argument list.     *)
(***************************************************************************)
\* lists of up to MaxConstructorNodes nodes, a node repeated included
MaxConstructorNodes == 3
RegistryArgs == SeqsUpTo({"n1", "n2", "n3"}, MaxConstructorNodes)

InitRegistry ==
    /\ \E trustedNodes \in RegistryArgs : Constructed(trustedNodes)
    /\ now = Genesis
    /\ lastCall = [op |-> "constructor", sender |-> Owner, reason |-> "ok",
                   replay |-> FALSE]
    /\ lastQuorum = NoQuorum
    /\ acceptedLog = <<>>
    /\ post = IdlePost
    /\ agents = <<>>
    /\ usedHashes = {}
    /\ mintingPaused = FALSE

RegistryAddNode ==
    \E c \in Callers, n \in {"n1", "n4", ZeroAddress} : addTrustedNode(c, n)

RegistryRemoveNode ==
    \E c \in Callers, n \in {"n1", "n2", "n4"} : removeTrustedNode(c, n)

NextRegistry ==
    \/ RegistryAddNode
    \/ RegistryRemoveNode

SpecRegistry == InitRegistry /\ [][NextRegistry]_vars

NextProof ==
    \/ ProofReceive
    \/ ProofVerify

SpecProof == InitApi /\ [][NextProof]_vars

(***************************************************************************)
(* Quorum evaluation (SpecQuorum)                                          *)
(***************************************************************************)
VerifyOp == "verifyCreatorWithZkTLS"

\* the outcomes the nodeSignatures array decides
QuorumReasons ==
    {"ok", "Insufficient node signatures", "Untrusted node",
     "Insufficient valid signatures"}

\* C1: Quorum threshold. A submission carrying valid signatures of exactly k
\* distinct trusted nodes, whatever else is in the array, is accepted if and
\* only if k >= requiredNodeSignatures.
C1_QuorumThreshold ==
    (lastCall.op = VerifyOp /\ lastCall.reason \in QuorumReasons) =>
        (lastCall.reason = "ok" <=>
             lastQuorum.distinct >= requiredNodeSignatures)

\* C2: Duplicate suppression. Valid signatures of the same node count once:
\* a submission whose valid signatures come from fewer than
\* requiredNodeSignatures distinct trusted nodes is never accepted.
C2_DuplicatesCountOnce ==
    (lastCall.op = VerifyOp /\ lastCall.reason = "ok") =>
        lastQuorum.distinct >= requiredNodeSignatures

\* C3: Untrusted signer rejection. The count compared with the threshold
\* never exceeds the number of entries whose recovered signer is trusted, so
\* an accepted verification has at least requiredNodeSignatures such entries.
C3_UntrustedSignerNeverCounts ==
    lastCall.op = VerifyOp =>
        /\ lastQuorum.counted <= lastQuorum.trustedSigned
        /\ lastCall.reason = "ok" =>
               lastQuorum.trustedSigned >= requiredNodeSignatures

\* an accepted array that also held an entry naming a trusted node and
\* signed by an untrusted key
C3_Witness ==
    /\ lastCall.op = VerifyOp
    /\ lastCall.reason = "ok"
    /\ lastQuorum.forged > 0
    /\ lastQuorum.counted < lastQuorum.len

(***************************************************************************)
(* Replay guard and expiry (Spec)                                          *)
(***************************************************************************)
ReplayReason == "Verification already used"

\* C4 as stated: Replay idempotence. Once a claim was accepted, a later
\* submission of the identical claim by the same subject is rejected with
\* the reason 'Verification already used', whatever signatures accompany it.
C4_ReplayReasonAlways ==
    (lastCall.op = VerifyOp /\ lastCall.replay) =>
        lastCall.reason = ReplayReason

\* C4 as amended: a later submission of an accepted claim by the same subject
\* is always rejected; the reason is 'Verification already used' when the
\* array holds at least requiredNodeSignatures entries and the timestamp is
\* still within the stale window, and otherwise the reason of the check that
\* precedes the replay check ('Insufficient node signatures', 'Stale
\* timestamp').
C4_ReplayRejected ==
    /\ (lastCall.op = VerifyOp /\ lastCall.replay) =>
           lastCall.reason \in
               {"Insufficient node signatures", "Stale timestamp", ReplayReason}
    /\ \A sender \in Senders, d \in DataInputs :
           \A nodeSignatures \in HonestLists(sender, d) :
               VerificationHash(sender, d) \in usedVerificationHashes =>
                   VerifyOutcome(sender, d, nodeSignatures) =
                       IF Len(nodeSignatures) < requiredNodeSignatures
                           THEN "Insufficient node signatures"
                       ELSE IF d.timestamp < now - StaleWindow
                           THEN "Stale timestamp"
                       ELSE ReplayReason

\* an accepted claim was submitted again and met the replay check
C4_Witness ==
    /\ lastCall.op = VerifyOp
    /\ lastCall.replay
    /\ lastCall.reason = ReplayReason
    /\ acceptedLog # <<>>

\* C5: Of the verification attempts that carry the identical claim for the
\* same subject, in whatever order the transactions are mined, at most one
\* is accepted: no key is consumed by two accepted calls.
C5_AtMostOneAccepted ==
    \A i, j \in 1..Len(acceptedLog) :
        i # j => acceptedLog[i] # acceptedLog[j]

\* two claims were accepted and a repeat of one of them was turned down
C5_Witness ==
    /\ Len(acceptedLog) = 2
    /\ lastCall.op = VerifyOp
    /\ lastCall.replay
    /\ lastCall.reason = ReplayReason

\* C6: The set of consumed replay keys only grows, whatever the step:
\* verification, expiry, emergency clear, node or threshold change.
C6_KeysOnlyGrow ==
    [][usedVerificationHashes \subseteq usedVerificationHashes']_vars

\* a creator's record was cleared by the owner and the creator's key is
\* still consumed
C6_Witness ==
    /\ lastCall.op = "emergencyRemoveVerification"
    /\ lastCall.reason = "ok"
    /\ \E k \in usedVerificationHashes :
           ~creatorVerifications[k[2]].isVerified

\* C7: Expiry boundary. A verified record with verificationTime T and
\* expiryDuration D is not expired at now = T + D and expired at
\* now = T + D + 1, for getCreatorVerificationStatus and isCreatorVerified
\* alike.
C7_ExpiryBoundary ==
    \A s \in Senders :
        LET v == creatorVerifications[s]
            status == getCreatorVerificationStatus(s)
        IN  v.isVerified =>
                /\ now = v.verificationTime + v.expiryDuration =>
                       (~status.isExpired /\ isCreatorVerified(s))
                /\ now = v.verificationTime + v.expiryDuration + 1 =>
                       (status.isExpired /\ ~isCreatorVerified(s))

\* one record stands exactly at its boundary while another is one second
\* past its own
C7_Witness ==
    \E s, t \in Senders :
        /\ creatorVerifications[s].isVerified
        /\ creatorVerifications[t].isVerified
        /\ now = creatorVerifications[s].verificationTime +
                     creatorVerifications[s].expiryDuration
        /\ now = creatorVerifications[t].verificationTime +
                     creatorVerifications[t].expiryDuration + 1
        /\ ~getCreatorVerificationStatus(s).isExpired
        /\ getCreatorVerificationStatus(t).isExpired

\* C9 as stated: Re-verification only after expiry or clearing. Whatever the
\* entry path, a successful verification write for a subject happens only in
\* a state where the subject's record is absent, cleared or expired.
C9_ReverifyOnlyAfterExpiry ==
    [][\A s \in Senders :
           (/\ creatorVerifications'[s] # creatorVerifications[s]
            /\ creatorVerifications'[s].isVerified)
               => ~isCreatorVerified(s)]_vars

(***************************************************************************)
(* The route (SpecApi)                                                     *)
(***************************************************************************)
AlreadyVerified == "Creator is already verified"

\* C8: Already-verified guard. A verify-creator request that passes the
\* route's input validation, for a subject whose record is verified and not
\* expired, is answered 409 'Creator is already verified' in the step that
\* reads the status: no node request has been dispatched, and the step
\* leaves the ledger and the replay set as they were.
C8_AlreadyVerifiedGuard ==
    /\ [](/\ \A a \in AddressInputs, h \in CidInputs, pr \in ProofInputs :
               (/\ a # "" /\ h # "" /\ Truthy(pr)
                /\ isAddress(a)
                /\ StartsWithBafkrei(h) /\ CidLength(h) >= 10
                /\ isCreatorVerified(a))
                   => LET r == ReceiveResult(a, h, pr, TRUE)
                      IN  /\ r.pc = "done"
                          /\ r.response = [status |-> 409,
                                           error |-> AlreadyVerified]
                          /\ r.nodeCalls = 0
          /\ post.response.error = AlreadyVerified =>
                 (post.pc = "done" /\ post.nodeCalls = 0))
    /\ [][(post' # post /\ post'.response.error = AlreadyVerified) =>
              UNCHANGED <<ledgerVars, acceptedLog>>]_vars

\* a request for a verified, unexpired creator was answered 409
C8_Witness ==
    /\ post.pc = "done"
    /\ post.response = [status |-> 409, error |-> AlreadyVerified]
    /\ post.nodeCalls = 0
    /\ isCreatorVerified(post.creatorAddress)

InvalidProofStructure == "Invalid zkTLS proof structure"

\* C11 as stated: Malformed-proof fast rejection. A proof whose witnesses
\* sequence is empty is rejected by verifyAgentCreatorProof with 'Invalid
\* zkTLS proof structure', and no request to a node is made for it.
C11_EmptyWitnessesRejected ==
    [][(/\ post.pc = "proof"
        /\ post' # post
        /\ post.proof.kind = "object"
        /\ post.proof.witnesses = Arr(0))
           => (/\ post'.pc = "done"
               /\ post'.response = [status |-> 400,
                                    error |-> InvalidProofStructure]
               /\ post'.nodeCalls = 0)]_vars

\* C12 as stated: ProofValidator fails closed. The proof check lets a proof
\* through exactly when identifier is non-empty, claimData is present with
\* non-empty provider and owner, and signatures and witnesses are non-empty
\* sequences; every other proof is answered 'Invalid zkTLS proof structure'.
C12_ValidatorFailsClosed ==
    [][(post.pc = "proof" /\ post' # post)
           => (validateZkTLSProof(post.proof) <=> zkTLSProofSchema(post.proof))
              /\ (post'.response.error # InvalidProofStructure
                      <=> zkTLSProofSchema(post.proof))]_vars

(***************************************************************************)
(* The gates of the contract (SpecGates)                                   *)
(***************************************************************************)
\* C13: Accuracy bound. A claim with accuracy above 10000 is never
\* committed: no consumed key and no stored record carries such an accuracy,
\* no array of signatures gets such a claim accepted, and the call rejected
\* with 'Invalid accuracy' leaves the ledger as it was.
C13_AccuracyBound ==
    /\ [](/\ \A key \in usedVerificationHashes : key[6] <= MaxAccuracy
          /\ \A s \in Senders :
                 creatorVerifications[s].data.accuracy <= MaxAccuracy
          /\ \A d \in GateData :
                 d.accuracy > MaxAccuracy =>
                     \A nodeSignatures \in GateLists(Subject, d) :
                         VerifyOutcome(Subject, d, nodeSignatures) # "ok")
    /\ [][(/\ lastCall'.op = VerifyOp
           /\ lastQuorum'.key # <<>>
           /\ lastQuorum'.key[6] > MaxAccuracy)
              => (lastCall'.reason # "ok" /\ UNCHANGED ledgerVars)]_vars

\* a claim with accuracy 10001 came with a full honest quorum and was
\* rejected at the accuracy check
C13_Witness ==
    /\ lastCall.op = VerifyOp
    /\ lastCall.reason = "Invalid accuracy"
    /\ lastQuorum.key[6] = MaxAccuracy + 1
    /\ lastQuorum.distinct >= requiredNodeSignatures

\* C14: No partial state on rejection. A call of verifyCreatorWithZkTLS
\* that is rejected, at whichever require, leaves the creator's record, the
\* consumed keys, the trusted nodes and the threshold exactly as they were.
C14_RejectionChangesNothing ==
    [][(lastCall'.op = VerifyOp /\ lastCall'.reason # "ok")
           => UNCHANGED <<ledgerVars, acceptedLog>>]_vars

\* a call was rejected at the signature count while a record and a consumed
\* key were in place
C14_Witness ==
    /\ lastCall.op = VerifyOp
    /\ lastCall.reason = "Insufficient valid signatures"
    /\ creatorVerifications[Subject].isVerified
    /\ usedVerificationHashes # {}

\* C15: Replay-key consumption and ledger write are one unit. The
\* consumed keys are exactly the keys of the accepted calls, one each; a
\* step that consumes a key of creator S is an accepted call that consumes
\* that one key and writes the verified record of S and of nobody else; an
\* accepted call consumes its key.
C15_KeyAndWriteAtomic ==
    /\ [](/\ usedVerificationHashes =
                 {acceptedLog[i] : i \in 1..Len(acceptedLog)}
          /\ Cardinality(usedVerificationHashes) = Len(acceptedLog))
    /\ [][/\ \A key \in usedVerificationHashes' \ usedVerificationHashes :
                /\ usedVerificationHashes' = usedVerificationHashes \cup {key}
                /\ acceptedLog' = Append(acceptedLog, key)
                /\ creatorVerifications'[key[2]].isVerified
                /\ creatorVerifications'[key[2]].verificationTime = now
                /\ VerificationHash(key[2],
                                    creatorVerifications'[key[2]].data) = key
                /\ \A s \in Accounts \ {key[2]} :
                       creatorVerifications'[s] = creatorVerifications[s]
          /\ acceptedLog' # acceptedLog =>
                 Cardinality(usedVerificationHashes' \ usedVerificationHashes)
                     = 1]_vars

\* two calls were accepted, and the record of the first was cleared since:
\* its key stays consumed
C15_Witness ==
    /\ Len(acceptedLog) = 2
    /\ \E i \in 1..2 : ~creatorVerifications[acceptedLog[i][2]].isVerified
    /\ lastCall.op = VerifyOp
    /\ lastCall.reason = "ok"

QuorumFailures ==
    {"Insufficient node signatures", "Insufficient valid signatures"}

\* C16 as stated: After a call is rejected for too few valid signatures, the
\* identical claim cannot be submitted again: the call that follows with the
\* same creator, claim fields and timestamp is rejected whatever signatures
\* it brings.
C16_NoResubmitAfterQuorumFailure ==
    [][(/\ lastCall.op = VerifyOp
        /\ lastCall.reason \in QuorumFailures
        /\ lastCall'.op = VerifyOp
        /\ lastQuorum'.key = lastQuorum.key)
           => lastCall'.reason # "ok"]_vars

(***************************************************************************)
(* The answers of the route (SpecApi)                                      *)
(***************************************************************************)
\* the reasons of a proof or policy rejection, as the route words them
PolicyRejections ==
    {"Missing required fields", "Invalid Ethereum address format",
     "Invalid Lighthouse hash format", AlreadyVerified,
     InvalidProofStructure, "Verification failed",
     "Insufficient node verifications", "Agent data validation failed",
     "Insufficient node signatures", "Untrusted node",
     "Insufficient valid signatures", ReplayReason, "Stale timestamp",
     "Future timestamp", "Invalid accuracy", "Invalid timestamp",
     "Empty lighthouse hash"}

\* C17 as stated: Status classes of POST verify-creator. Every proof or
\* policy rejection is answered with a 4xx status; a 5xx status is kept for
\* persistence and system failures.
C17_PolicyRejectionsAre4xx ==
    (post.pc = "done" /\ post.response.error \in PolicyRejections)
        => post.response.status \in 400..499

\* C18 as stated: Every rejection carries a reason identifying the gate that
\* failed, replay apart from quorum failure: the answer to a transaction
\* the contract rejected carries the reason the contract rejected it with,
\* which is the replay reason exactly when the key was already consumed and
\* the array was long enough.
C18_RejectionNamesItsGate ==
    [][(post.pc = "submit" /\ post' # post /\ lastCall'.reason # "ok")
           => /\ post'.response.error = lastCall'.reason
              /\ lastCall'.reason = ReplayReason => lastCall'.replay
              /\ lastCall'.reason \in QuorumFailures \cup {"Untrusted node"}
                     => lastQuorumOfPost.counted < requiredNodeSignatures]_vars

(***************************************************************************)
(* Status and the minting gate                                             *)
(***************************************************************************)
\* C19: canCreateNFT := isVerified && !isExpired. For every account, in
\* every ledger state and at every block time, the canCreateNFT that
\* verification-status answers equals isCreatorVerified of the account, the
\* predicate the contract gates minting with.
C19_CanCreateIsTheMintingGate ==
    \A a \in Accounts :
        LET status == GetStatus(a)
        IN  /\ status.canCreateNFT = isCreatorVerified(a)
            /\ status.canCreateNFT = (status.isVerified /\ ~status.isExpired)

\* a creator whose record has expired: verified, yet neither canCreateNFT
\* nor isCreatorVerified, while the other creator's record is still good
C19_Witness ==
    /\ GetStatus(Subject).isVerified
    /\ GetStatus(Subject).isExpired
    /\ ~GetStatus(Subject).canCreateNFT
    /\ GetStatus(Wallet).canCreateNFT

CreateOps == {"createAgent", "batchCreateAgents"}

C21_TimeRemainingFollowsRecord ==
    \A a \in Accounts :
        LET record == creatorVerifications[a]
            status == GetStatus(a)
        IN  (status.isVerified /\ ~status.isExpired) =>
                /\ status.timeRemaining # Expired
                /\ status.timeRemaining =
                       TimeText(record.verificationTime +
                                record.expiryDuration - now)

(***************************************************************************)
(* The node fan-out (SpecFanout)                                           *)
(***************************************************************************)
InsufficientVerifications == "Insufficient node verifications"

\* C22: Partial failure is tolerated. A request that fails settles its own
\* entry and no other, the fan-out goes on, and once it is evaluated the
\* verification is stopped with 'Insufficient node verifications' exactly
\* when fewer than 3 of the 5 requests brought a payload.
C22_PartialFailureTolerated ==
    /\ [][(post.pc = "fanout" /\ post' # post /\ ~AllSettled(post.nodes))
              => /\ post'.pc = "fanout"
                 /\ \E i \in 1..NodeUrlCount :
                        /\ post.nodes[i] = "pending"
                        /\ post'.nodes[i] \in NodeResults
                        /\ \A j \in 1..NodeUrlCount \ {i} :
                               post'.nodes[j] = post.nodes[j]]_vars
    /\ [][(post.pc = "fanout" /\ post'.pc # "fanout")
              => /\ post'.nodes = post.nodes
                 /\ (post'.response.error = InsufficientVerifications
                         <=> SuccessCount(post.nodes) < MinNodeAnswers)
                 /\ post'.response.error # "Verification failed"]_vars

\* two requests failed, three brought a payload and the verification went on
C22_Witness ==
    /\ post.pc = "sign"
    /\ Len(post.nodes) = NodeUrlCount
    /\ SuccessCount(post.nodes) = MinNodeAnswers
    /\ Cardinality({i \in 1..NodeUrlCount : post.nodes[i] = "error"}) = 2

\* C23: Settled fan-out. All 5 requests are issued in the step that starts
\* the fan-out, before any answer is taken; the count of payloads is
\* evaluated only when none is pending; and the outcome is a function of
\* what each node answered, not of the order of the answers.
C23_SettledFanout ==
    /\ [][(post.pc = "proof" /\ post'.pc = "fanout")
              => /\ Len(post'.nodes) = NodeUrlCount
                 /\ \A i \in 1..NodeUrlCount : post'.nodes[i] = "pending"
                 /\ post'.nodeCalls = NodeUrlCount]_vars
    /\ [][(post.pc = "fanout" /\ post'.pc # "fanout")
              => /\ \A i \in 1..NodeUrlCount : post.nodes[i] \in NodeResults
                 /\ post' = AfterFanout(post, SuccessCount(post.nodes))]_vars
    /\ [](post.pc = "sign" /\ post.nodes # <<>> =>
              /\ SuccessCount(post.nodes) >= MinNodeAnswers
              /\ \A i \in 1..NodeUrlCount : post.nodes[i] \in NodeResults)

\* the last request to settle brought the third payload: the evaluation
\* waited for it and let the verification through
C23_Witness ==
    /\ post.pc = "sign"
    /\ post.nodes = <<"error", "nopayload", "payload", "payload", "payload">>

(***************************************************************************)
(* Threshold and trusted set at evaluation time (SpecQuorum)               *)
(***************************************************************************)
TrustedCount == Cardinality({n \in NodeAddrs : trustedLighthouseNodes[n]})

\* C24: While requiredNodeSignatures exceeds the number of currently
\* trusted nodes, no call to verifyCreatorWithZkTLS is accepted, whatever
\* list of signatures it brings.
C24_NoAcceptanceAboveTrustedCount ==
    [][requiredNodeSignatures > TrustedCount
           => acceptedLog' = acceptedLog]_vars

\* C25: Trusted-set membership is read when the verification is evaluated.
\* A list holding the signature of a node removed before the evaluation is
\* not accepted, and the signatures counted for an accepted list are all of
\* nodes trusted at that moment.
C25_RemovedNodeDoesNotCount ==
    lastCall.op = VerifyOp =>
        /\ lastQuorum.untrustedNamed > 0 => lastCall.reason # "ok"
        /\ lastCall.reason = "ok" => lastQuorum.counted <= lastQuorum.trustedSigned
        /\ lastCall.reason = "Untrusted node" <=>
               (/\ lastQuorum.untrustedNamed > 0
                /\ lastQuorum.len >= requiredNodeSignatures
                /\ ~lastCall.replay)

\* n3 signed, was removed, and the list of the three nodes' signatures,
\* long enough for the threshold, was turned down
C25_Witness ==
    /\ lastCall.op = VerifyOp
    /\ lastCall.reason = "Untrusted node"
    /\ ~trustedLighthouseNodes["n3"]
    /\ lastQuorum.len = DefaultRequired
    /\ requiredNodeSignatures = DefaultRequired
    /\ lastQuorum.untrustedNamed = 1
    /\ lastQuorum.distinct = 2

(***************************************************************************)
(* The derived claim and its subject (SpecFanout)                          *)
(***************************************************************************)
CreatorSpellings == {Subject, SubjectChecksum, ZeroAddress, Wallet}

\* decrypted files of every kind: each numeric field below, at and above
\* its limits, each text field empty or filled, each creator spelling
AgentDataInputs ==
    [lighthouseHash : {"", "bafkreiabc"}, datasetSize : {-1, 0, 1},
     trainingEpochs : {0, 100}, accuracy : {-1, 0, 10000, 10001},
     modelType : {"", "transformer"}, creator : CreatorSpellings,
     timestamp : {0, Genesis}]

SameAccount(a, b) ==
    \/ a = b
    \/ {a, b} = {Subject, SubjectChecksum}

\* C26: verifyAgentCreatorProof answers isVerified = true only when the
\* creator of the derived claim is the subject address up to letter case and
\* datasetSize > 0, trainingEpochs > 0, 0 <= accuracy <= 10000, modelType is
\* non-empty and timestamp > 0; a claim whose creator is another address is
\* turned down with 'Agent data validation failed'.
C26_CreatorMustBeSubject ==
    /\ [](\A data \in AgentDataInputs, expected \in CreatorSpellings :
              validateAgentData(data, expected) =>
                  /\ SameAccount(data.creator, expected)
                  /\ data.datasetSize > 0 /\ data.trainingEpochs > 0
                  /\ data.accuracy \in 0..MaxAccuracy
                  /\ data.modelType # "" /\ data.timestamp > 0)
    /\ [](post.pc = "sign" =>
              /\ SameAccount(post.agentData.creator, post.creatorAddress)
              /\ post.agentData.datasetSize > 0
              /\ post.agentData.trainingEpochs > 0
              /\ post.agentData.accuracy \in 0..MaxAccuracy
              /\ post.agentData.modelType # ""
              /\ post.agentData.timestamp > 0)
    /\ [][(/\ post.pc = "fanout" /\ post'.pc # "fanout"
           /\ SuccessCount(post.nodes) >= MinNodeAnswers
           /\ ~SameAccount(decryptAndParseAgentData(post.lighthouseHash).creator,
                           post.creatorAddress))
              => /\ post'.pc = "done"
                 /\ post'.response.error = "Agent data validation failed"]_vars

\* enough nodes answered for Subject, whose claim names another creator
C26_Witness ==
    /\ post.pc = "done"
    /\ post.creatorAddress = Subject
    /\ SuccessCount(post.nodes) >= MinNodeAnswers
    /\ post.response.error = "Agent data validation failed"

(***************************************************************************)
(* Who writes a creator's record (Spec)                                    *)
(***************************************************************************)
\* the claim a replay key was computed from
ClaimOfKey(key) ==
    [lighthouseHash |-> key[3], datasetSize |-> key[4],
     trainingEpochs |-> key[5], accuracy |-> key[6], timestamp |-> key[7],
     dataHash |-> key[8]]

\* C27: Atomic replace. An accepted verification leaves the sender's record
\* equal to {isVerified: true, verificationTime: the current time,
\* lighthouseHash and data of the new claim, expiryDuration: the configured
\* duration}, whatever the record held before, and changes no other
\* account's record; a record changes in no other way, except that the
\* owner's emergency removal clears one record to the empty record.
C27_AtomicReplace ==
    /\ [][acceptedLog' # acceptedLog =>
              LET key == acceptedLog'[Len(acceptedLog')]
              IN  /\ lastCall'.op = VerifyOp /\ lastCall'.reason = "ok"
                  /\ key[2] = lastCall'.sender
                  /\ creatorVerifications' =
                         [creatorVerifications EXCEPT ![key[2]] =
                              [isVerified |-> TRUE, verificationTime |-> now,
                               lighthouseHash |-> key[3],
                               data |-> ClaimOfKey(key),
                               expiryDuration |-> verificationExpiryDuration]]
         ]_vars
    /\ [][(creatorVerifications' # creatorVerifications
               /\ acceptedLog' = acceptedLog)
              => /\ lastCall'.op = "emergencyRemoveVerification"
                 /\ lastCall'.sender = Owner
                 /\ \E a \in Accounts :
                        creatorVerifications' =
                            [creatorVerifications EXCEPT ![a] = ZeroVerification]
         ]_vars

\* Subject was verified twice; the record in place is the one of the second
\* verification, written after the owner changed the duration
C27_Witness ==
    /\ Len(acceptedLog) = 2
    /\ acceptedLog[1][2] = Subject /\ acceptedLog[2][2] = Subject
    /\ lastCall.op = VerifyOp /\ lastCall.reason = "ok"
    /\ creatorVerifications[Subject].verificationTime > Genesis
    /\ creatorVerifications[Subject].data = ClaimOfKey(acceptedLog[2])
    /\ acceptedLog[2] # acceptedLog[1]
    /\ creatorVerifications[Subject].expiryDuration = DefaultExpiry + 1

(***************************************************************************)
(* The supply of an agent (SpecSupply)                                     *)
(***************************************************************************)
MintOps == {"mintAgent", "batchMintAgents"}

RECURSIVE SumOver(_, _)
SumOver(f, S) ==
    IF S = {} THEN 0
    ELSE LET a == CHOOSE x \in S : TRUE
         IN  f[a] + SumOver(f, S \ {a})

\* the tokens of an agent in existence
Minted(agent) == SumOver(agent.balanceOf, Accounts)

\* currentSupply never exceeds maxSupply, and it is the number of tokens
\* minted
SupplyBound ==
    \A i \in 1..Len(agents) :
        /\ agents[i].currentSupply <= agents[i].maxSupply
        /\ Minted(agents[i]) = agents[i].currentSupply

\* what a batch asks for one id, all its entries for the id together
RECURSIVE AskedFor(_, _, _, _)
AskedFor(tokenIds, amounts, tokenId, i) ==
    IF i > Len(tokenIds) THEN 0
    ELSE (IF tokenIds[i] = tokenId THEN amounts[i] ELSE 0)
             + AskedFor(tokenIds, amounts, tokenId, i + 1)

BatchInputs ==
    {<<tokenIds, amounts>> :
        tokenIds \in {q \in BatchTokenIds : Len(q) = 2},
        amounts \in [1..2 -> {1, 2, UintMax}]}

\* a rejected mint changes neither a supply nor a balance, and an accepted
\* one adds what it minted to both
MintFrame ==
    [][(lastCall'.op \in MintOps /\ lastCall'.reason # "ok")
           => agents' = agents]_vars

NodeOps == {"addTrustedNode", "removeTrustedNode"}
NotOwnerReason == "Ownable: caller is not the owner"

\* C28: The trusted-node set changes only in a successful addTrustedNode or
\* removeTrustedNode of the owner and the threshold only in a successful
\* setRequiredNodeSignatures of the owner; a call of one of the three by
\* another account is rejected and changes nothing; verification, creation
\* and minting leave both as they are.
C28_OnlyOwnerMovesQuorumSettings ==
    /\ [][(trustedLighthouseNodes' # trustedLighthouseNodes
               \/ trustedNodesList' # trustedNodesList)
              => /\ lastCall'.op \in NodeOps
                 /\ lastCall'.sender = Owner
                 /\ lastCall'.reason = "ok"
                 /\ requiredNodeSignatures' = requiredNodeSignatures]_vars
    /\ [][requiredNodeSignatures' # requiredNodeSignatures
              => /\ lastCall'.op = "setRequiredNodeSignatures"
                 /\ lastCall'.sender = Owner
                 /\ lastCall'.reason = "ok"
                 /\ UNCHANGED <<trustedLighthouseNodes, trustedNodesList>>]_vars
    /\ [][(/\ lastCall'.op \in NodeOps \cup {"setRequiredNodeSignatures"}
           /\ lastCall'.sender # Owner)
              => /\ lastCall'.reason = NotOwnerReason
                 /\ UNCHANGED <<ledgerVars, agents, acceptedLog>>]_vars

\* another account asked to remove n3, which is trusted, after the owner
\* had lowered the threshold and added n4; n3 stayed
C28_Witness ==
    /\ lastCall.op = "removeTrustedNode"
    /\ lastCall.sender = Subject
    /\ lastCall.reason = NotOwnerReason
    /\ trustedLighthouseNodes["n3"]
    /\ trustedLighthouseNodes["n4"]
    /\ requiredNodeSignatures = 2
    /\ Len(acceptedLog) > 0
    /\ Len(agents) > 0

\* C29: In every state reachable from deployment the threshold is at most
\* the number of trusted nodes.
C29_ThresholdWithinTrustedCount ==
    requiredNodeSignatures <= Len(trustedNodesList)

(***************************************************************************)
(* Lighthouse hashes of the agents (SpecMint)                              *)
(***************************************************************************)
HashUsedReason == "Lighthouse hash already used"

\* C31: Lighthouse-hash uniqueness. No two agents share a lighthouseHash;
\* isHashUsed is true exactly for the hashes of the agents created; a
\* createAgent or batchCreateAgents call bringing a used hash, or one hash
\* twice in a batch, is rejected and creates no agent.
C31_HashUniqueness ==
    /\ [](\A i, j \in 1..Len(agents) :
              agents[i].lighthouseHash = agents[j].lighthouseHash => i = j)
    /\ [](\A h \in {"bafkreiA", "bafkreiB", ""} :
              isHashUsed(usedHashes, h) <=>
                  \E i \in 1..Len(agents) : agents[i].lighthouseHash = h)
    /\ [](\A caller \in Senders, params \in ParamsInputs :
              /\ isHashUsed(usedHashes, params.lighthouseHash) =>
                     CreateOutcome(caller, params, 1, mintingFee) # "ok"
              /\ BatchOutcome(caller, <<params, params>>, <<1, 1>>,
                              2 * mintingFee) # "ok")
    /\ [][(lastCall'.op \in CreateOps /\ lastCall'.reason # "ok")
              => (agents' = agents /\ usedHashes' = usedHashes)]_vars

\* a verified creator's batch with the same unused hash twice was rejected
\* for the hash, and nothing was stored
C31_Witness ==
    /\ lastCall.op = "batchCreateAgents"
    /\ lastCall.reason = HashUsedReason
    /\ isCreatorVerified(lastCall.sender)
    /\ agents = <<>>
    /\ usedHashes = {}

(***************************************************************************)
(* The pause of minting (SpecPause)                                        *)
(***************************************************************************)
PausedReasons == {"Minting is paused", "Paused"}
PauseOps == {"pauseMinting", "unpauseMinting"}

\* C32: Pausable minting. While mintingPaused is true, createAgent,
\* batchCreateAgents, mintAgent and batchMintAgents are rejected for the
\* pause and nothing changes; pausing and unpausing change the flag and
\* nothing else, so that after unpauseMinting the four functions answer as
\* before the pause; only the owner changes the flag.
C32_PausableMinting ==
    /\ [](mintingPaused =>
              /\ lastCall.op \in CreateOps \cup MintOps =>
                     lastCall.reason \in PausedReasons
              /\ \A caller \in Minters, params \in SupplyParams :
                     /\ CreateOutcome(caller, params, 1, mintingFee)
                            \in PausedReasons
                     /\ BatchOutcome(caller, <<params>>, <<1>>, mintingFee)
                            \in PausedReasons
              /\ \A caller \in Minters, tokenId \in 0..1 :
                     /\ MintOutcome(caller, tokenId, 1, Wallet, 2)
                            \in PausedReasons
                     /\ BatchMintOutcome(caller, <<tokenId>>, <<1>>, Wallet, 4)
                            \in PausedReasons)
    /\ [](~mintingPaused =>
              (lastCall.op \in CreateOps \cup MintOps =>
                   lastCall.reason \notin PausedReasons))
    /\ [][mintingPaused => UNCHANGED <<agents, usedHashes>>]_vars
    /\ [][(mintingPaused /\ lastCall'.op \in CreateOps \cup MintOps)
              => UNCHANGED <<ledgerVars, agents, usedHashes, mintingPaused>>
         ]_vars
    /\ [][mintingPaused' # mintingPaused
              => /\ lastCall'.op \in PauseOps
                 /\ lastCall'.sender = Owner
                 /\ lastCall'.reason = "ok"
                 /\ mintingPaused' = (lastCall'.op = "pauseMinting")]_vars
    /\ [][lastCall'.op \in PauseOps
              => UNCHANGED <<ledgerVars, agents, usedHashes, now>>]_vars

\* minting is paused and the creator's mint of an agent with supply left,
\* accepted before the pause, was rejected
C32_Witness ==
    /\ mintingPaused
    /\ lastCall.op = "mintAgent"
    /\ lastCall.sender = Subject
    /\ lastCall.reason \in PausedReasons
    /\ Len(agents) > 0
    /\ agents[1].creator = Subject
    /\ agents[1].currentSupply = 2
    /\ agents[1].balanceOf[Wallet] = 1
    /\ isCreatorVerified(Subject)

(***************************************************************************)
(* The order of the gates of a verify-creator request (SpecApi)            *)
(***************************************************************************)
\* the proofs of the requests that pass the field check of the route and
\* fail the structural validation
MalformedProofs ==
    {proof \in ProofInputs : Truthy(proof) /\ ~validateZkTLSProof(proof)}

\* C33: Gate order. A request that fails several gates is rejected with the
\* reason of the earliest one in the order structural validation,
\* already-verified, quorum, replay: a structurally malformed proof is never
\* answered 'Creator is already verified', whoever the subject is.
C33_MalformedBeforeAlreadyVerified ==
    \A creatorAddress \in {Subject, Wallet}, proof \in MalformedProofs :
        ReceiveResult(creatorAddress, "bafkreiabc", proof, TRUE).response.error
            # AlreadyVerified

(***************************************************************************)
(* Entries that do not count (SpecQuorum)                                  *)
(***************************************************************************)
\* C34: An entry that does not count toward the quorum, a signature that
\* does not recover to the node it names or an entry naming a node that is
\* not trusted, never causes the rejection by itself: a fresh claim whose
\* array holds valid signatures of at least requiredNodeSignatures distinct
\* trusted nodes is accepted.
C34_UncountedEntryNotFatal ==
    [][(/\ lastCall'.op = VerifyOp
        /\ ~lastCall'.replay
        /\ lastQuorum'.distinct >= requiredNodeSignatures)
           => lastCall'.reason = "ok"]_vars

(***************************************************************************)
(* What the nodes sign and what the ledger recovers from (SpecApi)         *)
(***************************************************************************)
\* C35: For every verification the route prepares, the message signed in
\* generateLighthouseNodeSignatures is the message verifyCreatorWithZkTLS
\* hashes for the transaction the route sends: same subject, same claim
\* fields, same timestamp, same encoding.
C35_SignedMessageIsLedgerMessage ==
    post.pc = "sign" =>
        RouteMessageHash(post.creatorAddress, post.agentData, now) =
            MessageHash(Wallet, VerificationDataOf(post.agentData, now))

(***************************************************************************)
(* The hash of an agent and the hash its creator verified (SpecMint)       *)
(***************************************************************************)
\* C36: Every agent stored by createAgent or batchCreateAgents carries the
\* lighthouseHash of its creator's verification record of that moment; a
\* creation with another hash is rejected.
C36_AgentHashIsVerifiedHash ==
    [][\A i \in (Len(agents) + 1)..Len(agents') :
           agents'[i].lighthouseHash =
               creatorVerifications[agents'[i].creator].lighthouseHash]_vars

(***************************************************************************)
(* The list and the mapping of trusted nodes (SpecRegistry)                *)
(***************************************************************************)
\* C37: Registry consistency. In every state reachable from any constructor
\* argument list through addTrustedNode and removeTrustedNode,
\* trustedNodesList holds no address twice, and an address is in the list
\* exactly when trustedLighthouseNodes says it is trusted. Stated of the
\* states a successful addTrustedNode or removeTrustedNode leaves.
C37_RegistryConsistent ==
    (lastCall.op \in NodeOps /\ lastCall.reason = "ok") =>
        /\ \A i, j \in 1..Len(trustedNodesList) :
               trustedNodesList[i] = trustedNodesList[j] => i = j
        /\ \A a \in DOMAIN trustedLighthouseNodes :
               trustedLighthouseNodes[a] <=>
                   \E i \in 1..Len(trustedNodesList) : trustedNodesList[i] = a

(***************************************************************************)
(* The time window of a claim (SpecWindow)                                 *)
(***************************************************************************)
\* a claim timestamp inside the window of lines 116-118 at block time t
InWindow(timestamp, t) ==
    /\ timestamp > 0
    /\ t - StaleWindow <= timestamp
    /\ timestamp <= t + FutureWindow

C39_ExpiryFixedAtCommit ==
    [][/\ (lastCall'.op = "setVerificationExpiryDuration" /\ now' = now) =>
            /\ creatorVerifications' = creatorVerifications
            /\ \A c \in DOMAIN creatorVerifications :
                   /\ isCreatorVerified(c)' = isCreatorVerified(c)
                   /\ getCreatorVerificationStatus(c)' =
                          getCreatorVerificationStatus(c)
            /\ IF lastCall'.reason = "ok"
               THEN /\ lastCall'.sender = Owner
                    /\ MinExpiry <= verificationExpiryDuration'
                    /\ verificationExpiryDuration' <= MaxExpiry
               ELSE verificationExpiryDuration' = verificationExpiryDuration
       /\ verificationExpiryDuration' # verificationExpiryDuration =>
            (lastCall'.op = "setVerificationExpiryDuration" /\ lastCall'.reason = "ok")
       /\ (lastCall'.op = VerifyOp /\ acceptedLog' # acceptedLog) =>
            creatorVerifications'[lastCall'.sender].expiryDuration =
                verificationExpiryDuration]_vars

\* the owner has lengthened the duration one second after the record of
\* the creator ran out: the record keeps its own duration and stays expired
C39_Witness ==
    /\ lastCall.op = "setVerificationExpiryDuration"
    /\ lastCall.reason = "ok"
    /\ creatorVerifications[Subject].isVerified
    /\ creatorVerifications[Subject].expiryDuration # verificationExpiryDuration
    /\ now = creatorVerifications[Subject].verificationTime
                 + verificationExpiryDuration
    /\ ~isCreatorVerified(Subject)
    /\ getCreatorVerificationStatus(Subject).isExpired

(***************************************************************************)
(* mintAgent by the creator and by others (SpecCreatorMint)                *)
(***************************************************************************)
ExpiredReason == "Creator verification expired"

=============================================================================
